---- MODULE Spec2Model ----
(***************************************************************************)
(* A model of the object model and property-access core of the VM          *)
(* (lib/VM/JSObject.cpp): objects with a parent pointer, a hidden class,   *)
(* a slot vector, extensibility flags and optional indexed storage, and    *)
(* the named / computed get, put, define, delete, seal, freeze and         *)
(* enumeration operations on them.                                         *)
(*                                                                         *)
(* Every operation is an operator that takes the heap and returns a        *)
(* result record [h, st, val, err, calls]: the heap after the call, the    *)
(* status ("ok" = RETURNED, "exc" = EXCEPTION), the returned value, the    *)
(* kind of error raised and the user callbacks (getters, setters, host     *)
(* callbacks) that were invoked, in order.  The actions apply one          *)
(* operation to the heap and record the call in `last`.                    *)
(***************************************************************************)
EXTENDS Integers, Sequences, FiniteSets, TLC

VARIABLES
  heap,        \* sequence of object cells; object id = position, 0 = null
  forInCache,  \* the for-in cache of each hidden class that has one
  nextObjectID,\* the runtime's counter of object IDs
  last         \* the last call: operation, arguments, result, prior facts

vars == <<heap, forInCache, nextObjectID, last>>

(***************************************************************************)
(* Bounds of the model.                                                    *)
(***************************************************************************)
MaxObjs == 4
MaxIndex == 2

(***************************************************************************)
(* Values.  Every value is a record tagged by k, so that any two values    *)
(* can be compared.                                                        *)
(***************************************************************************)
NullObj == 0
NullFn == "null"

JSVal(x) == [k |-> "js", v |-> x]
NumVal(n) == [k |-> "num", n |-> n]
Undefined == JSVal("undefined")
TrueV == JSVal("true")
FalseV == JSVal("false")
EmptyValue == [k |-> "empty"]
Indeterminate == [k |-> "indeterminate"]

\* What vmcast<HostObject> yields for an object that is not a HostObject:
\* the cast is checked by an assertion only, so the call made through it is
\* undefined.
BadCast == [k |-> "badcast"]
ListVal(s) == [k |-> "list", items |-> s]
CallVal(fn, self) == [k |-> "call", fn |-> fn, this |-> self]

\* A PropertyAccessor cell: a getter and a setter, either may be null.
PropertyAccessor(g, s) == [k |-> "acc", getter |-> g, setter |-> s]

isSameValue(a, b) == a = b

(***************************************************************************)
(* Property names are strings, held as tuples of one-character strings so  *)
(* that the array-index parse is computed, not assumed.                    *)
(***************************************************************************)
DigitOf(c) ==
  CASE c = "0" -> 0 [] c = "1" -> 1 [] c = "2" -> 2 [] c = "3" -> 3
    [] c = "4" -> 4 [] c = "5" -> 5 [] c = "6" -> 6 [] c = "7" -> 7
    [] c = "8" -> 8 [] c = "9" -> 9 [] OTHER -> -1

CharOf(d) ==
  CASE d = 0 -> "0" [] d = 1 -> "1" [] d = 2 -> "2" [] d = 3 -> "3"
    [] d = 4 -> "4" [] d = 5 -> "5" [] d = 6 -> "6" [] d = 7 -> "7"
    [] d = 8 -> "8" [] OTHER -> "9"

RECURSIVE DecimalOf(_)
DecimalOf(s) ==
  IF Len(s) = 0 THEN 0
  ELSE 10 * DecimalOf(SubSeq(s, 1, Len(s) - 1)) + DigitOf(s[Len(s)])

\* The array index a name spells, or -1: decimal digits only, no leading
\* zero, below 2^32 - 1.  The numbers of the model are 31-bit, so a name of
\* ten digits or more is out of its range: every name it uses is shorter and
\* spells a number below the limit.
toArrayIndex(s) ==
  IF /\ Len(s) >= 1
     /\ Len(s) <= 9
     /\ \A i \in 1..Len(s) : DigitOf(s[i]) >= 0
     /\ (Len(s) > 1 => s[1] # "0")
  THEN DecimalOf(s)
  ELSE -1

RECURSIVE numberToString(_)
numberToString(n) ==
  IF n < 10 THEN <<CharOf(n)>>
  ELSE Append(numberToString(n \div 10), CharOf(n % 10))

\* A computed key is a primitive: a number or a string.
NumKey(n) == [k |-> "num", n |-> n]
StrKey(s) == [k |-> "str", s |-> s]

\* A string primitive for which valueToSymbolID reports an exception, and a
\* key that is an object: its conversion raises or yields the primitive.
FailingKey(s) == [k |-> "failing", s |-> s]
ObjKey(prim, raises) == [k |-> "obj", prim |-> prim, raises |-> raises]

toPropertyKeyIfObject(key) ==
  IF key.k = "obj" THEN [exc |-> key.raises, key |-> key.prim]
  ELSE [exc |-> FALSE, key |-> key]

\* LAZY_TO_IDENTIFIER returns EXCEPTION from the function that uses it.
LAZY_TO_IDENTIFIER_raises(key) == key.k = "failing"

\* The index of a key that is already a number, or -1.
toArrayIndexFastPath(key) ==
  IF key.k = "num" /\ key.n >= 0 THEN key.n ELSE -1

valueToSymbolID(key) == IF key.k = "num" THEN numberToString(key.n) ELSE key.s

\* TO_ARRAY_INDEX: the fast path, then the parse of the key's string.
TO_ARRAY_INDEX(key) ==
  IF toArrayIndexFastPath(key) >= 0 THEN toArrayIndexFastPath(key)
  ELSE toArrayIndex(valueToSymbolID(key))

(***************************************************************************)
(* PropertyFlags, DefinePropertyFlags and PropOpFlags.                     *)
(***************************************************************************)
PropertyFlags(e, w, c) ==
  [enumerable |-> e, writable |-> w, configurable |-> c, accessor |-> FALSE,
   internalSetter |-> FALSE, hostObject |-> FALSE, staticBuiltin |-> FALSE,
   indexed |-> FALSE]

NoFlags == PropertyFlags(FALSE, FALSE, FALSE)

defaultNewNamedPropertyFlags == PropertyFlags(TRUE, TRUE, TRUE)

DefinePropertyFlags(se, e, sw, w, sc, c, sg, ss, sv) ==
  [setEnumerable |-> se, enumerable |-> e, setWritable |-> sw, writable |-> w,
   setConfigurable |-> sc, configurable |-> c, setGetter |-> sg,
   setSetter |-> ss, setValue |-> sv, enableInternalSetter |-> FALSE]

getDefaultNewPropertyFlags ==
  DefinePropertyFlags(TRUE, TRUE, TRUE, TRUE, TRUE, TRUE, FALSE, FALSE, TRUE)

dpIsAccessor(dpf) == dpf.setGetter \/ dpf.setSetter

dpIsEmpty(dpf) ==
  ~(dpf.setEnumerable \/ dpf.enumerable \/ dpf.setWritable \/ dpf.writable
    \/ dpf.setConfigurable \/ dpf.configurable \/ dpf.setGetter
    \/ dpf.setSetter \/ dpf.setValue \/ dpf.enableInternalSetter)

PropOpFlags(t, m, f) ==
  [throwOnError |-> t, mustExist |-> m, internalForce |-> f]

(***************************************************************************)
(* Results of operations.                                                  *)
(***************************************************************************)
Ret(h, v, calls) ==
  [h |-> h, st |-> "ok", val |-> v, err |-> "", calls |-> calls]

Raise(h, e, calls) ==
  [h |-> h, st |-> "exc", val |-> Undefined, err |-> e, calls |-> calls]

\* "throw or return false", the way every rejected update ends.
Reject(h, opFlags, calls) ==
  IF opFlags.throwOnError THEN Raise(h, "TypeError", calls)
  ELSE Ret(h, FalseV, calls)

Failed(r) == r.st = "exc" \/ r.val = FalseV

\* A call whose result is held in a local: e is evaluated once and Then is
\* applied to its value (auto cr = ...; and what follows).
Once(e, Then(_)) == CHOOSE r \in {Then(x) : x \in {e}} : TRUE

(***************************************************************************)
(* The hidden class: the ordered property table of an object, each entry   *)
(* a name, its flags and its slot; dict is dictionary mode.                *)
(***************************************************************************)
RootClass == [props |-> <<>>, dict |-> FALSE]

HC_findProperty(clazz, name) ==
  IF \E i \in 1..Len(clazz.props) : clazz.props[i].name = name
  THEN CHOOSE i \in 1..Len(clazz.props) : clazz.props[i].name = name
  ELSE 0

HC_usedSlots(clazz) == {clazz.props[i].slot : i \in 1..Len(clazz.props)}

\* The slot a new property gets: the first one no property holds.
HC_nextSlot(clazz) ==
  CHOOSE s \in 0..Len(clazz.props) :
    /\ s \notin HC_usedSlots(clazz)
    /\ \A t \in 0..(s - 1) : t \in HC_usedSlots(clazz)

HC_addProperty(clazz, name, flags) ==
  [clazz |-> [clazz EXCEPT !.props =
                Append(@, [name |-> name, flags |-> flags,
                           slot |-> HC_nextSlot(clazz)])],
   slot |-> HC_nextSlot(clazz)]

HC_updateProperty(clazz, pos, flags) ==
  [clazz EXCEPT !.props[pos].flags = flags]

HC_deleteProperty(clazz, pos) ==
  [props |-> SubSeq(clazz.props, 1, pos - 1)
               \o SubSeq(clazz.props, pos + 1, Len(clazz.props)),
   dict |-> TRUE]

HC_makeAllNonConfigurable(clazz) ==
  [clazz EXCEPT !.props =
     [i \in 1..Len(clazz.props) |->
        [clazz.props[i] EXCEPT !.flags.configurable = FALSE]]]

HC_makeAllReadOnly(clazz) ==
  [clazz EXCEPT !.props =
     [i \in 1..Len(clazz.props) |->
        [clazz.props[i] EXCEPT !.flags.configurable = FALSE,
                               !.flags.writable = FALSE]]]

HC_areAllNonConfigurable(clazz) ==
  \A i \in 1..Len(clazz.props) : ~clazz.props[i].flags.configurable

HC_areAllReadOnly(clazz) ==
  \A i \in 1..Len(clazz.props) :
    ~clazz.props[i].flags.configurable /\ ~clazz.props[i].flags.writable

HC_getHasIndexLikeProperties(clazz) ==
  \E i \in 1..Len(clazz.props) : toArrayIndex(clazz.props[i].name) >= 0

HC_getNumProperties(clazz) == Len(clazz.props)

(***************************************************************************)
(* The object cell.                                                        *)
(***************************************************************************)
NewObject(parent) ==
  [parent |-> parent, clazz |-> RootClass, slots |-> <<>>,
   noExtend |-> FALSE, sealed |-> FALSE, frozen |-> FALSE,
   lazyObject |-> FALSE, hostObject |-> FALSE, indexedStorage |-> FALSE,
   fastIndexProperties |-> TRUE, isArray |-> FALSE, indexed |-> <<>>,
   hostNames |-> <<>>, objectID |-> 0, lazyRuns |-> 0]

\* A function created lazy: its properties are installed by
\* initializeLazyObject.  lazyRuns counts the runs of its initializer.
NewLazyObject(parent) == [NewObject(parent) EXCEPT !.lazyObject = TRUE]

\* An object with indexed storage of its own (an ArrayImpl subclass): the
\* element of index i is indexed[i + 1], EmptyValue where there is a hole.
NewIndexedObject(parent) ==
  [NewObject(parent) EXCEPT
     !.indexedStorage = TRUE,
     !.indexed = [i \in 1..MaxIndex |-> EmptyValue]]

\* A host object: reads and writes of names its class does not hold go to
\* the host callbacks; names is what getHostPropertyNames reports.
NewHostObject(parent, names) ==
  [NewObject(parent) EXCEPT !.hostObject = TRUE, !.hostNames = names]

ObjIds == 1..Len(heap)

isExtensible(h, o) == ~h[o].noExtend

(***************************************************************************)
(* The indexed-storage interface.  A plain JSObject has the defaults; an   *)
(* object with indexedStorage has the element vector `indexed`, whose      *)
(* elements are enumerable, writable unless the object is frozen and       *)
(* configurable unless it is sealed.                                       *)
(***************************************************************************)
NoIndexedFlags == [present |-> FALSE, flags |-> NoFlags]

JSObject_getOwnIndexedRangeImpl(h, o) == <<0, 0>>

JSObject_haveOwnIndexedImpl(h, o, i) == FALSE

JSObject_getOwnIndexedPropertyFlagsImpl(h, o, i) == NoIndexedFlags

JSObject_getOwnIndexedImpl(h, o, i) == EmptyValue

JSObject_setOwnIndexedImpl(h, o, i, v) == [h |-> h, ok |-> FALSE]

JSObject_deleteOwnIndexedImpl(h, o, i) == [h |-> h, ok |-> FALSE]

JSObject_checkAllOwnIndexedImpl(h, o, mode) == TRUE

ArrayImpl_haveOwnIndexed(h, o, i) ==
  i < Len(h[o].indexed) /\ h[o].indexed[i + 1] # EmptyValue

ArrayImpl_getOwnIndexedPropertyFlags(h, o, i) ==
  IF ArrayImpl_haveOwnIndexed(h, o, i)
  THEN [present |-> TRUE,
        flags |-> PropertyFlags(TRUE, ~h[o].frozen, ~h[o].sealed)]
  ELSE NoIndexedFlags

ArrayImpl_getOwnIndexed(h, o, i) ==
  IF i < Len(h[o].indexed) THEN h[o].indexed[i + 1] ELSE EmptyValue

ArrayImpl_setOwnIndexed(h, o, i, v) ==
  IF h[o].frozen \/ i >= Len(h[o].indexed)
  THEN [h |-> h, ok |-> FALSE]
  ELSE [h |-> [h EXCEPT ![o].indexed[i + 1] = v], ok |-> TRUE]

ArrayImpl_deleteOwnIndexed(h, o, i) ==
  IF ~ArrayImpl_haveOwnIndexed(h, o, i) THEN [h |-> h, ok |-> TRUE]
  ELSE IF h[o].sealed THEN [h |-> h, ok |-> FALSE]
  ELSE [h |-> [h EXCEPT ![o].indexed[i + 1] = EmptyValue], ok |-> TRUE]

ArrayImpl_checkAllOwnIndexed(h, o, mode) ==
  /\ \A i \in 0..(Len(h[o].indexed) - 1) :
       ArrayImpl_haveOwnIndexed(h, o, i) =>
         LET f == ArrayImpl_getOwnIndexedPropertyFlags(h, o, i).flags
         IN ~f.configurable /\ (mode = "ReadOnly" => ~f.writable)

\* The virtual calls.
getOwnIndexedRange(h, o) ==
  IF h[o].indexedStorage THEN <<0, Len(h[o].indexed)>>
  ELSE JSObject_getOwnIndexedRangeImpl(h, o)

haveOwnIndexed(h, o, i) ==
  IF h[o].indexedStorage THEN ArrayImpl_haveOwnIndexed(h, o, i)
  ELSE JSObject_haveOwnIndexedImpl(h, o, i)

getOwnIndexedPropertyFlags(h, o, i) ==
  IF h[o].indexedStorage THEN ArrayImpl_getOwnIndexedPropertyFlags(h, o, i)
  ELSE JSObject_getOwnIndexedPropertyFlagsImpl(h, o, i)

getOwnIndexed(h, o, i) ==
  IF h[o].indexedStorage THEN ArrayImpl_getOwnIndexed(h, o, i)
  ELSE JSObject_getOwnIndexedImpl(h, o, i)

setOwnIndexed(h, o, i, v) ==
  IF h[o].indexedStorage THEN ArrayImpl_setOwnIndexed(h, o, i, v)
  ELSE JSObject_setOwnIndexedImpl(h, o, i, v)

deleteOwnIndexed(h, o, i) ==
  IF h[o].indexedStorage THEN ArrayImpl_deleteOwnIndexed(h, o, i)
  ELSE JSObject_deleteOwnIndexedImpl(h, o, i)

checkAllOwnIndexed(h, o, mode) ==
  IF h[o].indexedStorage THEN ArrayImpl_checkAllOwnIndexed(h, o, mode)
  ELSE JSObject_checkAllOwnIndexedImpl(h, o, mode)

(***************************************************************************)
(* Slots.  Slot s of an object is slots[s + 1].                            *)
(***************************************************************************)
getNamedSlotValue(h, o, desc) == h[o].slots[desc.slot + 1]

setNamedSlotValue(h, o, desc, v) == [h EXCEPT ![o].slots[desc.slot + 1] = v]

\* A variant that stores the value only when the storage grows.
allocateNewSlotStorageGrowOnly(h, o, newSlotIndex, v) ==
  IF newSlotIndex < Len(h[o].slots) THEN h
  ELSE [h EXCEPT ![o].slots = Append(@, v)]

allocateNewSlotStorage(h, o, newSlotIndex, v) ==
  IF newSlotIndex < Len(h[o].slots)
  THEN [h EXCEPT ![o].slots[newSlotIndex + 1] = v]
  ELSE [h EXCEPT ![o].slots = Append(@, v)]

\* A read through a slot index that was never assigned yields a value the
\* code does not determine.
getComputedSlotValue(h, o, desc) ==
  IF desc.flags.indexed THEN getOwnIndexed(h, o, desc.slot)
  ELSE IF desc.slot < 0 THEN Indeterminate
  ELSE getNamedSlotValue(h, o, desc)

setComputedSlotValue(h, o, desc, v) ==
  IF desc.flags.indexed THEN setOwnIndexed(h, o, desc.slot, v).h
  ELSE setNamedSlotValue(h, o, desc, v)

(***************************************************************************)
(* Adding a property, and the lazy initializer that uses it.               *)
(***************************************************************************)
\* A variant that leaves the fast path flag alone.
addOwnPropertyImplKeepFast(h, o, name, propertyFlags, valueOrAccessor) ==
  LET addResult == HC_addProperty(h[o].clazz, name, propertyFlags)
      h1 == [h EXCEPT ![o].clazz = addResult.clazz]
  IN allocateNewSlotStorage(h1, o, addResult.slot, valueOrAccessor)

addOwnPropertyImpl(h, o, name, propertyFlags, valueOrAccessor) ==
  LET addResult == HC_addProperty(h[o].clazz, name, propertyFlags)
      h1 == [h EXCEPT ![o].clazz = addResult.clazz]
      h2 == allocateNewSlotStorage(h1, o, addResult.slot, valueOrAccessor)
  IN IF HC_getHasIndexLikeProperties(h2[o].clazz)
     THEN [h2 EXCEPT ![o].fastIndexProperties = FALSE]
     ELSE h2

\* What Callable::defineLazyProperties installs on a lazy function.
LazyName == <<"l">>

defineLazyProperties(h, o) ==
  LET h1 == [h EXCEPT ![o].lazyRuns = IF @ < 3 THEN @ + 1 ELSE @]
  IN IF HC_findProperty(h1[o].clazz, LazyName) # 0 THEN h1
     ELSE addOwnPropertyImpl(h1, o, LazyName, PropertyFlags(FALSE, FALSE, TRUE),
                             JSVal("v1"))

initializeLazyObject(h, o) ==
  defineLazyProperties([h EXCEPT ![o].lazyObject = FALSE], o)

(***************************************************************************)
(* Descriptor resolution.                                                  *)
(***************************************************************************)
NoDesc == [slot |-> 0, flags |-> NoFlags]

\* The descriptor a host object reports for a name its class does not hold.
HostDesc == [slot |-> 0,
             flags |-> [NoFlags EXCEPT !.hostObject = TRUE, !.writable = TRUE]]

findProperty(h, o, name) == HC_findProperty(h[o].clazz, name)

DescAt(h, o, pos) ==
  [slot |-> h[o].clazz.props[pos].slot, flags |-> h[o].clazz.props[pos].flags]

getOwnNamedDescriptor(h, o, name) ==
  IF findProperty(h, o, name) # 0
  THEN [found |-> TRUE, desc |-> DescAt(h, o, findProperty(h, o, name))]
  ELSE [found |-> FALSE, desc |-> NoDesc]

Found(h, owner, desc) ==
  [h |-> h, owner |-> owner, desc |-> desc, st |-> "ok"]

\* The do-while over the parents in getNamedDescriptor.
RECURSIVE getNamedDescriptorLoop(_, _, _)
getNamedDescriptorLoop(h, cur, name) ==
  IF cur = NullObj THEN Found(h, NullObj, NoDesc)
  ELSE IF ~h[cur].lazyObject /\ ~h[cur].hostObject
  THEN IF findProperty(h, cur, name) # 0
       THEN Found(h, cur, DescAt(h, cur, findProperty(h, cur, name)))
       ELSE getNamedDescriptorLoop(h, h[cur].parent, name)
  ELSE IF h[cur].lazyObject
  THEN LET h1 == initializeLazyObject(h, cur)
       IN IF findProperty(h1, cur, name) # 0
          THEN Found(h1, cur, DescAt(h1, cur, findProperty(h1, cur, name)))
          ELSE getNamedDescriptorLoop(h1, h1[cur].parent, name)
  ELSE Found(h, cur, HostDesc)

\* A variant without the host object test: a name the class does not hold
\* is looked up along the prototype chain.
getNamedDescriptorNoHost(h, self, name) ==
  IF findProperty(h, self, name) # 0
  THEN Found(h, self, DescAt(h, self, findProperty(h, self, name)))
  ELSE getNamedDescriptorLoop(h, h[self].parent, name)

getNamedDescriptor(h, self, name) ==
  IF findProperty(h, self, name) # 0
  THEN Found(h, self, DescAt(h, self, findProperty(h, self, name)))
  ELSE IF h[self].hostObject THEN Found(h, self, HostDesc)
  ELSE LET h1 == IF h[self].lazyObject THEN initializeLazyObject(h, self)
                 ELSE h
       IN IF h[self].lazyObject /\ findProperty(h1, self, name) # 0
          THEN Found(h1, self, DescAt(h1, self, findProperty(h1, self, name)))
          ELSE getNamedDescriptorLoop(h1, h1[self].parent, name)

IndexedDesc(flags, index) ==
  [slot |-> index, flags |-> [flags EXCEPT !.indexed = TRUE]]

FoundOwn(h, found, desc) ==
  [h |-> h, found |-> found, desc |-> desc, exc |-> FALSE]

\* A descriptor local that was declared and never assigned: the flags are
\* cleared by their constructor, the slot holds whatever was there (-1).
UnassignedDesc == [slot |-> -1, flags |-> NoFlags]

\* A variant whose fast path reports an element with the flags of a new
\* element, whatever the flags the indexed storage gives.
RECURSIVE getOwnComputedPrimitiveDescriptorNewFlags(_, _, _)
getOwnComputedPrimitiveDescriptorNewFlags(h, self, key) ==
  IF h[self].fastIndexProperties /\ toArrayIndexFastPath(key) >= 0
  THEN LET res == getOwnIndexedPropertyFlags(h, self, toArrayIndexFastPath(key))
       IN IF res.present
          THEN FoundOwn(h, TRUE,
                        IndexedDesc(PropertyFlags(TRUE, TRUE, TRUE),
                                    toArrayIndexFastPath(key)))
          ELSE FoundOwn(h, FALSE, NoDesc)
  ELSE IF LAZY_TO_IDENTIFIER_raises(key)
  THEN [FoundOwn(h, FALSE, UnassignedDesc) EXCEPT !.exc = TRUE]
  ELSE LET id == valueToSymbolID(key)
           named == getOwnNamedDescriptor(h, self, id)
           arrayIndex == IF h[self].indexedStorage THEN TO_ARRAY_INDEX(key)
                         ELSE -1
           res == IF arrayIndex >= 0
                  THEN getOwnIndexedPropertyFlags(h, self, arrayIndex)
                  ELSE NoIndexedFlags
       IN IF named.found THEN FoundOwn(h, TRUE, named.desc)
          ELSE IF res.present
          THEN FoundOwn(h, TRUE, IndexedDesc(res.flags, arrayIndex))
          ELSE IF h[self].lazyObject
          THEN getOwnComputedPrimitiveDescriptorNewFlags(
                 initializeLazyObject(h, self), self, key)
          ELSE FoundOwn(h, FALSE, NoDesc)

RECURSIVE getOwnComputedPrimitiveDescriptor(_, _, _)
getOwnComputedPrimitiveDescriptor(h, self, key) ==
  IF h[self].fastIndexProperties /\ toArrayIndexFastPath(key) >= 0
  THEN LET res == getOwnIndexedPropertyFlags(h, self, toArrayIndexFastPath(key))
       IN IF res.present
          THEN FoundOwn(h, TRUE, IndexedDesc(res.flags, toArrayIndexFastPath(key)))
          ELSE FoundOwn(h, FALSE, NoDesc)
  ELSE IF LAZY_TO_IDENTIFIER_raises(key)
  THEN [FoundOwn(h, FALSE, UnassignedDesc) EXCEPT !.exc = TRUE]
  ELSE LET id == valueToSymbolID(key)
           named == getOwnNamedDescriptor(h, self, id)
           arrayIndex == IF h[self].indexedStorage THEN TO_ARRAY_INDEX(key)
                         ELSE -1
           res == IF arrayIndex >= 0
                  THEN getOwnIndexedPropertyFlags(h, self, arrayIndex)
                  ELSE NoIndexedFlags
       IN IF named.found THEN FoundOwn(h, TRUE, named.desc)
          ELSE IF res.present
          THEN FoundOwn(h, TRUE, IndexedDesc(res.flags, arrayIndex))
          ELSE IF h[self].lazyObject
          THEN getOwnComputedPrimitiveDescriptor(
                 initializeLazyObject(h, self), self, key)
          ELSE FoundOwn(h, FALSE, NoDesc)

\* The do-while of getComputedPrimitiveDescriptor; propObj is 0 when the
\* chain is exhausted.
RECURSIVE getComputedPrimitiveDescriptor(_, _, _)
getComputedPrimitiveDescriptor(h, propObj, key) ==
  IF propObj = NullObj THEN Found(h, NullObj, NoDesc)
  ELSE LET Then(cr) ==
             IF cr.exc
             THEN [Found(cr.h, propObj, UnassignedDesc) EXCEPT !.st = "exc"]
             ELSE IF cr.found THEN Found(cr.h, propObj, cr.desc)
             ELSE IF cr.h[propObj].hostObject
             THEN Found(cr.h, propObj, HostDesc)
             ELSE getComputedPrimitiveDescriptor(cr.h, cr.h[propObj].parent,
                                                 key)
       IN Once(getOwnComputedPrimitiveDescriptor(h, propObj, key), Then)

\* The status of getComputedPrimitiveDescriptor is not read: RETURNED is
\* returned whatever it was.
getComputedDescriptor(h, self, key) ==
  LET converted == toPropertyKeyIfObject(key)
  IN IF converted.exc
     THEN [Found(h, NullObj, UnassignedDesc) EXCEPT !.st = "exc"]
     ELSE [getComputedPrimitiveDescriptor(h, self, converted.key)
             EXCEPT !.st = "ok"]

(***************************************************************************)
(* User callbacks.  A getter, a setter or a host callback is opaque: the   *)
(* call is recorded, and what a getter or a host read returns is a value   *)
(* that names the callee and its receiver.                                 *)
(***************************************************************************)
GetterCall(fn, self) ==
  [kind |-> "getter", fn |-> fn, this |-> self, name |-> <<>>, arg |-> Undefined]

SetterCall(fn, self, v) ==
  [kind |-> "setter", fn |-> fn, this |-> self, name |-> <<>>, arg |-> v]

HostGetCall(obj, name) ==
  [kind |-> "hostGet", fn |-> NullFn, this |-> obj, name |-> name,
   arg |-> Undefined]

HostSetCall(obj, name, v) ==
  [kind |-> "hostSet", fn |-> NullFn, this |-> obj, name |-> name, arg |-> v]

HostVal(obj, name) == [k |-> "host", obj |-> obj, name |-> name]

(***************************************************************************)
(* JSArray: the length property and its internal setter.                   *)
(***************************************************************************)
LengthName == <<"l", "e", "n", "g", "t", "h">>

JSArray_getLength(h, o) ==
  getNamedSlotValue(h, o, getOwnNamedDescriptor(h, o, LengthName).desc).n

JSArray_setLength(h, o, v, opFlags) ==
  IF v.k # "num" THEN Raise(h, "RangeError", <<>>)
  ELSE LET desc == getOwnNamedDescriptor(h, o, LengthName).desc
           h1 == setNamedSlotValue(h, o, desc, v)
       IN Ret([h1 EXCEPT ![o].indexed =
                 [i \in 1..Len(@) |-> IF i > v.n THEN EmptyValue ELSE @[i]]],
              TrueV, <<>>)

internalSetter(h, self, name, v, opFlags) ==
  IF h[self].isArray /\ name = LengthName
  THEN JSArray_setLength(h, self, v, opFlags)
  ELSE Raise(h, "unreachable", <<>>)

(***************************************************************************)
(* Get and has.                                                            *)
(***************************************************************************)
\* A variant that runs the getter on the object that holds the property.
getNamed_RJSOwnerThis(h, self, name, opFlags) ==
  LET f == getNamedDescriptor(h, self, name)
  IN IF f.owner = NullObj
     THEN IF opFlags.mustExist THEN Raise(f.h, "ReferenceError", <<>>)
          ELSE Ret(f.h, Undefined, <<>>)
     ELSE IF ~f.desc.flags.accessor /\ ~f.desc.flags.hostObject
     THEN Ret(f.h, getNamedSlotValue(f.h, f.owner, f.desc), <<>>)
     ELSE IF f.desc.flags.accessor
     THEN LET accessor == getNamedSlotValue(f.h, f.owner, f.desc)
          IN IF accessor.getter = NullFn THEN Ret(f.h, Undefined, <<>>)
             ELSE Ret(f.h, CallVal(accessor.getter, f.owner),
                      <<GetterCall(accessor.getter, f.owner)>>)
     ELSE Ret(f.h, HostVal(f.owner, name), <<HostGetCall(f.owner, name)>>)

getNamed_RJS(h, self, name, opFlags) ==
  LET f == getNamedDescriptor(h, self, name)
  IN IF f.owner = NullObj
     THEN IF opFlags.mustExist THEN Raise(f.h, "ReferenceError", <<>>)
          ELSE Ret(f.h, Undefined, <<>>)
     ELSE IF ~f.desc.flags.accessor /\ ~f.desc.flags.hostObject
     THEN Ret(f.h, getNamedSlotValue(f.h, f.owner, f.desc), <<>>)
     ELSE IF f.desc.flags.accessor
     THEN LET accessor == getNamedSlotValue(f.h, f.owner, f.desc)
          IN IF accessor.getter = NullFn THEN Ret(f.h, Undefined, <<>>)
             ELSE Ret(f.h, CallVal(accessor.getter, self),
                      <<GetterCall(accessor.getter, self)>>)
     ELSE Ret(f.h, HostVal(f.owner, name), <<HostGetCall(f.owner, name)>>)

getComputed_RJS(h, self, key) ==
  IF /\ h[self].fastIndexProperties
     /\ toArrayIndexFastPath(key) >= 0
     /\ getOwnIndexed(h, self, toArrayIndexFastPath(key)) # EmptyValue
  THEN Ret(h, getOwnIndexed(h, self, toArrayIndexFastPath(key)), <<>>)
  ELSE LET converted == toPropertyKeyIfObject(key)
           nameValPrimitive == converted.key
           f == getComputedPrimitiveDescriptor(h, self, nameValPrimitive)
       IN IF converted.exc THEN Raise(h, "Error", <<>>)
          ELSE IF f.owner = NullObj THEN Ret(f.h, Undefined, <<>>)
          ELSE IF ~f.desc.flags.accessor /\ ~f.desc.flags.hostObject
          THEN Ret(f.h, getComputedSlotValue(f.h, f.owner, f.desc), <<>>)
          ELSE IF f.desc.flags.accessor
          THEN LET accessor == getComputedSlotValue(f.h, f.owner, f.desc)
               IN IF accessor.getter = NullFn THEN Ret(f.h, Undefined, <<>>)
                  ELSE Ret(f.h, CallVal(accessor.getter, self),
                           <<GetterCall(accessor.getter, self)>>)
          ELSE IF ~h[self].hostObject THEN Ret(f.h, BadCast, <<>>)
          ELSE Ret(f.h, HostVal(self, valueToSymbolID(nameValPrimitive)),
                   <<HostGetCall(self, valueToSymbolID(nameValPrimitive))>>)

getNamedOrIndexed(h, self, name, opFlags) ==
  IF h[self].indexedStorage /\ toArrayIndex(name) >= 0
  THEN getComputed_RJS(h, self, NumKey(toArrayIndex(name)))
  ELSE getNamed_RJS(h, self, name, opFlags)

hasNamed(h, self, name) ==
  LET f == getNamedDescriptor(h, self, name)
  IN Ret(f.h, IF f.owner # NullObj THEN TrueV ELSE FalseV, <<>>)

hasNamedOrIndexed(h, self, name) ==
  IF /\ h[self].indexedStorage
     /\ toArrayIndex(name) >= 0
     /\ haveOwnIndexed(h, self, toArrayIndex(name))
  THEN Ret(h, TrueV, <<>>)
  ELSE IF /\ h[self].indexedStorage
          /\ toArrayIndex(name) >= 0
          /\ h[self].fastIndexProperties
  THEN Ret(h, FalseV, <<>>)
  ELSE hasNamed(h, self, name)

hasComputed(h, self, key) ==
  IF /\ h[self].fastIndexProperties
     /\ toArrayIndexFastPath(key) >= 0
     /\ haveOwnIndexed(h, self, toArrayIndexFastPath(key))
  THEN Ret(h, TrueV, <<>>)
  ELSE LET f == getComputedDescriptor(h, self, key)
       IN IF f.st = "exc" THEN Raise(f.h, "Error", <<>>)
          ELSE Ret(f.h, IF f.owner # NullObj THEN TrueV ELSE FalseV, <<>>)

(***************************************************************************)
(* Put.                                                                    *)
(***************************************************************************)
\* A variant without the extensibility check.
addOwnPropertyUnchecked(h, self, name, dpFlags, valueOrAccessor, opFlags) ==
  LET acc == dpIsAccessor(dpFlags)
      flags ==
        [NoFlags EXCEPT
           !.accessor = acc,
           !.enumerable = dpFlags.setEnumerable /\ dpFlags.enumerable,
           !.writable = ~acc /\ dpFlags.setWritable /\ dpFlags.writable,
           !.configurable = dpFlags.setConfigurable /\ dpFlags.configurable,
           !.internalSetter = dpFlags.enableInternalSetter]
  IN Ret(addOwnPropertyImpl(h, self, name, flags, valueOrAccessor), TrueV,
         <<>>)

addOwnProperty(h, self, name, dpFlags, valueOrAccessor, opFlags) ==
  IF ~isExtensible(h, self) /\ ~opFlags.internalForce
  THEN Reject(h, opFlags, <<>>)
  ELSE LET acc == dpIsAccessor(dpFlags)
           flags ==
             [NoFlags EXCEPT
                !.accessor = acc,
                !.enumerable = dpFlags.setEnumerable /\ dpFlags.enumerable,
                !.writable = ~acc /\ dpFlags.setWritable /\ dpFlags.writable,
                !.configurable =
                   dpFlags.setConfigurable /\ dpFlags.configurable,
                !.internalSetter = dpFlags.enableInternalSetter]
       IN Ret(addOwnPropertyImpl(h, self, name, flags, valueOrAccessor),
              TrueV, <<>>)

raiseErrorForOverridingStaticBuiltin(h) == Raise(h, "TypeError", <<>>)

\* A variant that adds the property whether or not it must exist.
putNamed_RJSNoMustExist(h, self, name, v, opFlags) ==
  LET f == getNamedDescriptor(h, self, name)
      accessor == getNamedSlotValue(f.h, f.owner, f.desc)
  IN IF f.owner # NullObj /\ f.desc.flags.accessor
     THEN IF accessor.setter = NullFn THEN Reject(f.h, opFlags, <<>>)
          ELSE Ret(f.h, TrueV, <<SetterCall(accessor.setter, self, v)>>)
     ELSE IF f.owner # NullObj /\ ~f.desc.flags.writable
     THEN IF f.desc.flags.staticBuiltin
          THEN raiseErrorForOverridingStaticBuiltin(f.h)
          ELSE Reject(f.h, opFlags, <<>>)
     ELSE IF f.owner = self
     THEN IF ~f.desc.flags.internalSetter /\ ~f.desc.flags.hostObject
          THEN Ret(setNamedSlotValue(f.h, self, f.desc, v), TrueV, <<>>)
          ELSE IF f.desc.flags.internalSetter
          THEN internalSetter(f.h, self, name, v, opFlags)
          ELSE Ret(f.h, TrueV, <<HostSetCall(self, name, v)>>)
     ELSE addOwnProperty(f.h, self, name, getDefaultNewPropertyFlags, v,
                         opFlags)

\* A variant that writes the inherited property where it was found.
putNamed_RJSWriteOwner(h, self, name, v, opFlags) ==
  LET f == getNamedDescriptor(h, self, name)
      accessor == getNamedSlotValue(f.h, f.owner, f.desc)
  IN IF f.owner # NullObj /\ f.desc.flags.accessor
     THEN IF accessor.setter = NullFn THEN Reject(f.h, opFlags, <<>>)
          ELSE Ret(f.h, TrueV, <<SetterCall(accessor.setter, self, v)>>)
     ELSE IF f.owner # NullObj /\ ~f.desc.flags.writable
     THEN IF f.desc.flags.staticBuiltin
          THEN raiseErrorForOverridingStaticBuiltin(f.h)
          ELSE Reject(f.h, opFlags, <<>>)
     ELSE IF f.owner # NullObj
     THEN IF ~f.desc.flags.internalSetter /\ ~f.desc.flags.hostObject
          THEN Ret(setNamedSlotValue(f.h, f.owner, f.desc, v), TrueV, <<>>)
          ELSE IF f.desc.flags.internalSetter
          THEN internalSetter(f.h, self, name, v, opFlags)
          ELSE Ret(f.h, TrueV, <<HostSetCall(self, name, v)>>)
     ELSE IF opFlags.mustExist THEN Raise(f.h, "ReferenceError", <<>>)
     ELSE addOwnProperty(f.h, self, name, getDefaultNewPropertyFlags, v,
                         opFlags)

putNamed_RJS(h, self, name, v, opFlags) ==
  LET f == getNamedDescriptor(h, self, name)
      accessor == getNamedSlotValue(f.h, f.owner, f.desc)
  IN IF f.owner # NullObj /\ f.desc.flags.accessor
     THEN IF accessor.setter = NullFn THEN Reject(f.h, opFlags, <<>>)
          ELSE Ret(f.h, TrueV, <<SetterCall(accessor.setter, self, v)>>)
     ELSE IF f.owner # NullObj /\ ~f.desc.flags.writable
     THEN IF f.desc.flags.staticBuiltin
          THEN raiseErrorForOverridingStaticBuiltin(f.h)
          ELSE Reject(f.h, opFlags, <<>>)
     ELSE IF f.owner = self
     THEN IF ~f.desc.flags.internalSetter /\ ~f.desc.flags.hostObject
          THEN Ret(setNamedSlotValue(f.h, self, f.desc, v), TrueV, <<>>)
          ELSE IF f.desc.flags.internalSetter
          THEN internalSetter(f.h, self, name, v, opFlags)
          ELSE Ret(f.h, TrueV, <<HostSetCall(self, name, v)>>)
     ELSE IF opFlags.mustExist THEN Raise(f.h, "ReferenceError", <<>>)
     ELSE addOwnProperty(f.h, self, name, getDefaultNewPropertyFlags, v,
                         opFlags)

\* A variant that stores the element whatever the length update answered.
putComputedNewStoreFirst(h, self, key, v, opFlags) ==
  IF ~isExtensible(h, self) THEN Reject(h, opFlags, <<>>)
  ELSE LET arrayIndex == IF h[self].indexedStorage THEN TO_ARRAY_INDEX(key)
                         ELSE -1
           Then(cr) ==
             LET result == setOwnIndexed(cr.h, self, arrayIndex, v)
             IN IF cr.st = "exc" THEN [cr EXCEPT !.h = result.h]
                ELSE IF cr.val = FalseV THEN Ret(result.h, FalseV, cr.calls)
                ELSE IF result.ok THEN Ret(result.h, TrueV, cr.calls)
                ELSE Reject(result.h, opFlags, cr.calls)
       IN IF arrayIndex >= 0
          THEN Once(IF h[self].isArray
                       /\ arrayIndex >= JSArray_getLength(h, self)
                    THEN putNamed_RJS(h, self, LengthName,
                                      NumVal(arrayIndex + 1), opFlags)
                    ELSE Ret(h, TrueV, <<>>),
                    Then)
          ELSE addOwnProperty(h, self, valueToSymbolID(key),
                              getDefaultNewPropertyFlags, v, opFlags)

\* The tail of putComputed_RJS: the property is not an own property.
putComputedNew(h, self, key, v, opFlags) ==
  IF ~isExtensible(h, self) THEN Reject(h, opFlags, <<>>)
  ELSE LET arrayIndex == IF h[self].indexedStorage THEN TO_ARRAY_INDEX(key)
                         ELSE -1
           Then(cr) ==
             LET result == setOwnIndexed(cr.h, self, arrayIndex, v)
             IN IF cr.st = "exc" THEN cr
                ELSE IF cr.val = FalseV THEN Ret(cr.h, FalseV, cr.calls)
                ELSE IF result.ok THEN Ret(result.h, TrueV, cr.calls)
                ELSE Reject(result.h, opFlags, cr.calls)
       IN IF arrayIndex >= 0
          THEN Once(IF h[self].isArray
                       /\ arrayIndex >= JSArray_getLength(h, self)
                    THEN putNamed_RJS(h, self, LengthName,
                                      NumVal(arrayIndex + 1), opFlags)
                    ELSE Ret(h, TrueV, <<>>),
                    Then)
          ELSE addOwnProperty(h, self, valueToSymbolID(key),
                              getDefaultNewPropertyFlags, v, opFlags)

putComputed_RJS(h, self, key, v, opFlags) ==
  IF /\ h[self].fastIndexProperties
     /\ toArrayIndexFastPath(key) >= 0
     /\ haveOwnIndexed(h, self, toArrayIndexFastPath(key))
  THEN LET result == setOwnIndexed(h, self, toArrayIndexFastPath(key), v)
       IN IF result.ok THEN Ret(result.h, TrueV, <<>>)
          ELSE Reject(result.h, opFlags, <<>>)
  ELSE LET converted == toPropertyKeyIfObject(key)
           nameValPrimitive == converted.key
           Then(f) ==
             LET accessor == getComputedSlotValue(f.h, f.owner, f.desc)
             IN IF f.owner # NullObj /\ f.desc.flags.accessor
                THEN IF accessor.setter = NullFn
                     THEN Reject(f.h, opFlags, <<>>)
                     ELSE Ret(f.h, TrueV,
                              <<SetterCall(accessor.setter, self, v)>>)
                ELSE IF f.owner # NullObj /\ ~f.desc.flags.writable
                THEN IF f.desc.flags.staticBuiltin
                     THEN raiseErrorForOverridingStaticBuiltin(f.h)
                     ELSE Reject(f.h, opFlags, <<>>)
                ELSE IF f.owner = self
                THEN IF f.desc.flags.hostObject
                     THEN Ret(f.h, TrueV,
                              <<HostSetCall(self,
                                            valueToSymbolID(nameValPrimitive),
                                            v)>>)
                     ELSE Ret(setComputedSlotValue(f.h, self, f.desc, v),
                              TrueV, <<>>)
                ELSE putComputedNew(f.h, self, nameValPrimitive, v, opFlags)
       IN IF converted.exc THEN Raise(h, "Error", <<>>)
          ELSE Once(getComputedPrimitiveDescriptor(h, self, nameValPrimitive),
                    Then)

putNamedOrIndexed(h, self, name, v, opFlags) ==
  IF h[self].indexedStorage /\ toArrayIndex(name) >= 0
  THEN putComputed_RJS(h, self, NumKey(toArrayIndex(name)), v, opFlags)
  ELSE putNamed_RJS(h, self, name, v, opFlags)

(***************************************************************************)
(* DefineProperty: the update rule of ES5 8.12.9 as the code applies it.   *)
(* The result is the status (done, needSet, failed, or exc when the        *)
(* rejection is thrown), the new flags, and the accessor cell handed in    *)
(* with the halves the call left unmentioned filled in from the current    *)
(* cell.                                                                   *)
(***************************************************************************)
UpdateStatus(status, flags, value) ==
  [status |-> status, flags |-> flags, value |-> value]

UpdateFailed(opFlags) ==
  UpdateStatus(IF opFlags.throwOnError THEN "exc" ELSE "failed", NoFlags,
               Undefined)

\* A variant that installs the accessor cell as it was handed in.
checkPropertyUpdateNewCell(currentFlags, dpFlags, curValueOrAccessor, valueOrAccessor, opFlags) ==
  LET same ==
        /\ (~dpFlags.setEnumerable
              \/ dpFlags.enumerable = currentFlags.enumerable)
        /\ (~dpFlags.setWritable \/ dpFlags.writable = currentFlags.writable)
        /\ (~dpFlags.setConfigurable
              \/ dpFlags.configurable = currentFlags.configurable)
        /\ IF dpIsAccessor(dpFlags)
           THEN /\ currentFlags.accessor
                /\ (~dpFlags.setGetter
                      \/ curValueOrAccessor.getter = valueOrAccessor.getter)
                /\ (~dpFlags.setSetter
                      \/ curValueOrAccessor.setter = valueOrAccessor.setter)
           ELSE IF dpFlags.setValue
           THEN isSameValue(curValueOrAccessor, valueOrAccessor)
           ELSE TRUE
      generic == ~(dpFlags.setValue \/ dpFlags.setWritable
                     \/ dpFlags.setGetter \/ dpFlags.setSetter)
      convert == ~generic /\ currentFlags.accessor # dpIsAccessor(dpFlags)
      bothData == ~generic /\ ~convert /\ ~currentFlags.accessor
      bothAccessor == ~generic /\ ~convert /\ currentFlags.accessor
      rejected ==
        \/ /\ ~currentFlags.configurable
           /\ \/ dpFlags.configurable
              \/ /\ dpFlags.setEnumerable
                 /\ dpFlags.enumerable # currentFlags.enumerable
        \/ convert /\ ~currentFlags.configurable
        \/ /\ bothData
           /\ ~currentFlags.configurable
           /\ ~currentFlags.writable
           /\ \/ dpFlags.writable
              \/ /\ dpFlags.setValue
                 /\ ~isSameValue(curValueOrAccessor, valueOrAccessor)
        \/ /\ bothAccessor
           /\ ~currentFlags.configurable
           /\ \/ /\ dpFlags.setGetter
                 /\ valueOrAccessor.getter # curValueOrAccessor.getter
              \/ /\ dpFlags.setSetter
                 /\ valueOrAccessor.setter # curValueOrAccessor.setter
      newAccessor == valueOrAccessor
      newFlags ==
        [currentFlags EXCEPT
           !.writable = IF dpFlags.setWritable THEN dpFlags.writable
                        ELSE IF convert THEN FALSE ELSE @,
           !.enumerable = IF dpFlags.setEnumerable THEN dpFlags.enumerable
                          ELSE @,
           !.configurable = IF dpFlags.setConfigurable
                            THEN dpFlags.configurable ELSE @,
           !.accessor = IF dpFlags.setValue THEN FALSE
                        ELSE IF dpIsAccessor(dpFlags) THEN TRUE ELSE @]
  IN IF dpIsEmpty(dpFlags) \/ same
     THEN UpdateStatus("done", currentFlags, valueOrAccessor)
     ELSE IF rejected THEN UpdateFailed(opFlags)
     ELSE IF dpFlags.setValue \/ dpIsAccessor(dpFlags)
     THEN UpdateStatus("needSet", newFlags, newAccessor)
     ELSE UpdateStatus("done", newFlags, newAccessor)

checkPropertyUpdate(currentFlags, dpFlags, curValueOrAccessor, valueOrAccessor, opFlags) ==
  LET same ==
        /\ (~dpFlags.setEnumerable
              \/ dpFlags.enumerable = currentFlags.enumerable)
        /\ (~dpFlags.setWritable \/ dpFlags.writable = currentFlags.writable)
        /\ (~dpFlags.setConfigurable
              \/ dpFlags.configurable = currentFlags.configurable)
        /\ IF dpIsAccessor(dpFlags)
           THEN /\ currentFlags.accessor
                /\ (~dpFlags.setGetter
                      \/ curValueOrAccessor.getter = valueOrAccessor.getter)
                /\ (~dpFlags.setSetter
                      \/ curValueOrAccessor.setter = valueOrAccessor.setter)
           ELSE IF dpFlags.setValue
           THEN isSameValue(curValueOrAccessor, valueOrAccessor)
           ELSE TRUE
      generic == ~(dpFlags.setValue \/ dpFlags.setWritable
                     \/ dpFlags.setGetter \/ dpFlags.setSetter)
      convert == ~generic /\ currentFlags.accessor # dpIsAccessor(dpFlags)
      bothData == ~generic /\ ~convert /\ ~currentFlags.accessor
      bothAccessor == ~generic /\ ~convert /\ currentFlags.accessor
      rejected ==
        \/ /\ ~currentFlags.configurable
           /\ \/ dpFlags.configurable
              \/ /\ dpFlags.setEnumerable
                 /\ dpFlags.enumerable # currentFlags.enumerable
        \/ convert /\ ~currentFlags.configurable
        \/ /\ bothData
           /\ ~currentFlags.configurable
           /\ ~currentFlags.writable
           /\ \/ dpFlags.writable
              \/ /\ dpFlags.setValue
                 /\ ~isSameValue(curValueOrAccessor, valueOrAccessor)
        \/ /\ bothAccessor
           /\ ~currentFlags.configurable
           /\ \/ /\ dpFlags.setGetter
                 /\ valueOrAccessor.getter # curValueOrAccessor.getter
              \/ /\ dpFlags.setSetter
                 /\ valueOrAccessor.setter # curValueOrAccessor.setter
      newAccessor ==
        IF bothAccessor
        THEN PropertyAccessor(
               IF dpFlags.setGetter THEN valueOrAccessor.getter
               ELSE curValueOrAccessor.getter,
               IF dpFlags.setSetter THEN valueOrAccessor.setter
               ELSE curValueOrAccessor.setter)
        ELSE valueOrAccessor
      newFlags ==
        [currentFlags EXCEPT
           !.writable = IF dpFlags.setWritable THEN dpFlags.writable
                        ELSE IF convert THEN FALSE ELSE @,
           !.enumerable = IF dpFlags.setEnumerable THEN dpFlags.enumerable
                          ELSE @,
           !.configurable = IF dpFlags.setConfigurable
                            THEN dpFlags.configurable ELSE @,
           !.accessor = IF dpFlags.setValue THEN FALSE
                        ELSE IF dpIsAccessor(dpFlags) THEN TRUE ELSE @]
  IN IF dpIsEmpty(dpFlags) \/ same
     THEN UpdateStatus("done", currentFlags, valueOrAccessor)
     ELSE IF rejected THEN UpdateFailed(opFlags)
     ELSE IF dpFlags.setValue \/ dpIsAccessor(dpFlags)
     THEN UpdateStatus("needSet", newFlags, newAccessor)
     ELSE UpdateStatus("done", newFlags, newAccessor)

\* A variant without the return on PropertyUpdateStatus::done.
updateOwnPropertyAlwaysSet(h, self, name, propertyPos, desc, dpFlags, valueOrAccessor, opFlags) ==
  LET updateStatus ==
        checkPropertyUpdate(desc.flags, dpFlags,
                            getNamedSlotValue(h, self, desc), valueOrAccessor,
                            opFlags)
      h1 == IF updateStatus.flags # desc.flags
            THEN [h EXCEPT ![self].clazz =
                    HC_updateProperty(@, propertyPos, updateStatus.flags)]
            ELSE h
      newDesc == [desc EXCEPT !.flags = updateStatus.flags]
  IN IF updateStatus.status = "exc" THEN Raise(h, "TypeError", <<>>)
     ELSE IF updateStatus.status = "failed" THEN Ret(h, FalseV, <<>>)
     ELSE IF dpFlags.setValue /\ newDesc.flags.internalSetter
     THEN internalSetter(h1, self, name, valueOrAccessor, opFlags)
     ELSE IF dpFlags.setValue \/ dpIsAccessor(dpFlags)
     THEN Ret(setNamedSlotValue(h1, self, newDesc, valueOrAccessor), TrueV,
              <<>>)
     ELSE Ret(h1, TrueV, <<>>)

updateOwnProperty(h, self, name, propertyPos, desc, dpFlags, valueOrAccessor, opFlags) ==
  LET updateStatus ==
        checkPropertyUpdate(desc.flags, dpFlags,
                            getNamedSlotValue(h, self, desc), valueOrAccessor,
                            opFlags)
      h1 == IF updateStatus.flags # desc.flags
            THEN [h EXCEPT ![self].clazz =
                    HC_updateProperty(@, propertyPos, updateStatus.flags)]
            ELSE h
      newDesc == [desc EXCEPT !.flags = updateStatus.flags]
  IN IF updateStatus.status = "exc" THEN Raise(h, "TypeError", <<>>)
     ELSE IF updateStatus.status = "failed" THEN Ret(h, FalseV, <<>>)
     ELSE IF updateStatus.status = "done" THEN Ret(h1, TrueV, <<>>)
     ELSE IF dpFlags.setValue /\ newDesc.flags.internalSetter
     THEN internalSetter(h1, self, name, updateStatus.value, opFlags)
     ELSE Ret(setNamedSlotValue(h1, self, newDesc, updateStatus.value), TrueV,
              <<>>)

RECURSIVE defineOwnProperty(_, _, _, _, _, _)
defineOwnProperty(h, self, name, dpFlags, valueOrAccessor, opFlags) ==
  LET pos == findProperty(h, self, name)
  IN IF pos # 0
     THEN updateOwnProperty(h, self, name, pos, DescAt(h, self, pos), dpFlags,
                            valueOrAccessor, opFlags)
     ELSE IF h[self].lazyObject
     THEN defineOwnProperty(initializeLazyObject(h, self), self, name,
                            dpFlags, valueOrAccessor, opFlags)
     ELSE addOwnProperty(h, self, name, dpFlags, valueOrAccessor, opFlags)

defineNewOwnProperty(h, self, name, propertyFlags, valueOrAccessor) ==
  Ret(addOwnPropertyImpl(h, self, name, propertyFlags, valueOrAccessor),
      TrueV, <<>>)

canNewPropertyBeIndexed(dpf) ==
  /\ dpf.setEnumerable /\ dpf.enumerable
  /\ dpf.setWritable /\ dpf.writable
  /\ dpf.setConfigurable /\ dpf.configurable
  /\ ~dpf.setSetter /\ ~dpf.setGetter

\* defineOwnComputedPrimitive when an indexed element of that index exists.
defineOwnComputedExistingIndexed(h, self, arrayIndex, indexedFlags, dpFlags, valueOrAccessor, opFlags) ==
  LET curValueOrAccessor == getOwnIndexed(h, self, arrayIndex)
      updateStatus ==
        checkPropertyUpdate(indexedFlags, dpFlags, curValueOrAccessor,
                            valueOrAccessor, opFlags)
      result == setOwnIndexed(h, self, arrayIndex, valueOrAccessor)
      value == IF dpFlags.setValue \/ dpIsAccessor(dpFlags)
               THEN valueOrAccessor ELSE curValueOrAccessor
      dpFlags2 ==
        [dpFlags EXCEPT
           !.setEnumerable = TRUE, !.setWritable = TRUE,
           !.setConfigurable = TRUE,
           !.enumerable = updateStatus.flags.enumerable,
           !.writable = updateStatus.flags.writable,
           !.configurable = updateStatus.flags.configurable]
      deleted == deleteOwnIndexed(h, self, arrayIndex)
  IN IF updateStatus.status = "exc" THEN Raise(h, "TypeError", <<>>)
     ELSE IF updateStatus.status = "failed" THEN Ret(h, FalseV, <<>>)
     ELSE IF updateStatus.flags = indexedFlags
     THEN IF updateStatus.status = "done" THEN Ret(h, TrueV, <<>>)
          ELSE IF result.ok THEN Ret(result.h, TrueV, <<>>)
          ELSE Reject(result.h, opFlags, <<>>)
     ELSE IF ~deleted.ok THEN Reject(deleted.h, opFlags, <<>>)
     ELSE addOwnProperty(deleted.h, self, numberToString(arrayIndex),
                         dpFlags2, value, opFlags)

\* A variant that raises the length only for an element.
defineOwnComputedNewIndexedElementLength(h, self, arrayIndex, dpFlags, valueOrAccessor, opFlags) ==
  LET needLength ==
        h[self].isArray /\ arrayIndex >= JSArray_getLength(h, self)
      lengthDesc == getOwnNamedDescriptor(h, self, LengthName).desc
      newIsIndexed == canNewPropertyBeIndexed(dpFlags)
      result == IF newIsIndexed
                THEN setOwnIndexed(h, self, arrayIndex,
                                   IF dpFlags.setValue THEN valueOrAccessor
                                   ELSE Undefined)
                ELSE [h |-> h, ok |-> TRUE]
      h2 == IF needLength
            THEN JSArray_setLength(result.h, self, NumVal(arrayIndex + 1),
                                   opFlags).h
            ELSE result.h
  IN IF ~isExtensible(h, self) THEN Reject(h, opFlags, <<>>)
     ELSE IF needLength /\ ~lengthDesc.flags.writable
     THEN Reject(h, opFlags, <<>>)
     ELSE IF ~result.ok THEN Reject(result.h, opFlags, <<>>)
     ELSE IF newIsIndexed THEN Ret(h2, TrueV, <<>>)
     ELSE addOwnProperty(h, self, numberToString(arrayIndex), dpFlags,
                         valueOrAccessor, opFlags)

\* defineOwnComputedPrimitive when the index-like name is new.
defineOwnComputedNewIndexed(h, self, arrayIndex, dpFlags, valueOrAccessor, opFlags) ==
  LET needLength ==
        h[self].isArray /\ arrayIndex >= JSArray_getLength(h, self)
      lengthDesc == getOwnNamedDescriptor(h, self, LengthName).desc
      newIsIndexed == canNewPropertyBeIndexed(dpFlags)
      result == IF newIsIndexed
                THEN setOwnIndexed(h, self, arrayIndex,
                                   IF dpFlags.setValue THEN valueOrAccessor
                                   ELSE Undefined)
                ELSE [h |-> h, ok |-> TRUE]
      h2 == IF needLength
            THEN JSArray_setLength(result.h, self, NumVal(arrayIndex + 1),
                                   opFlags).h
            ELSE result.h
  IN IF ~isExtensible(h, self) THEN Reject(h, opFlags, <<>>)
     ELSE IF needLength /\ ~lengthDesc.flags.writable
     THEN Reject(h, opFlags, <<>>)
     ELSE IF ~result.ok THEN Reject(result.h, opFlags, <<>>)
     ELSE IF newIsIndexed THEN Ret(h2, TrueV, <<>>)
     ELSE addOwnProperty(h2, self, numberToString(arrayIndex), dpFlags,
                         valueOrAccessor, opFlags)

defineOwnComputedPrimitive(h, self, key, dpFlags, valueOrAccessor, opFlags) ==
  LET arrayIndex == IF h[self].indexedStorage THEN TO_ARRAY_INDEX(key) ELSE -1
      id == valueToSymbolID(key)
      pos == findProperty(h, self, id)
      indexedPropPresent == getOwnIndexedPropertyFlags(h, self, arrayIndex)
  IN IF arrayIndex < 0
     THEN defineOwnProperty(h, self, id, dpFlags, valueOrAccessor, opFlags)
     ELSE IF HC_getHasIndexLikeProperties(h[self].clazz) /\ pos # 0
     THEN updateOwnProperty(h, self, id, pos, DescAt(h, self, pos), dpFlags,
                            valueOrAccessor, opFlags)
     ELSE IF indexedPropPresent.present
     THEN defineOwnComputedExistingIndexed(h, self, arrayIndex,
            indexedPropPresent.flags, dpFlags, valueOrAccessor, opFlags)
     ELSE defineOwnComputedNewIndexed(h, self, arrayIndex, dpFlags,
                                      valueOrAccessor, opFlags)

defineOwnComputed(h, self, key, dpFlags, valueOrAccessor, opFlags) ==
  defineOwnComputedPrimitive(h, self, key, dpFlags, valueOrAccessor, opFlags)

(***************************************************************************)
(* Delete.                                                                 *)
(***************************************************************************)
\* Clear the slot, then install the class without the property.
\* A variant that leaves the value of the deleted property in its slot.
deleteFoundKeepValue(h, self, pos) ==
  [h EXCEPT ![self].clazz = HC_deleteProperty(@, pos)]

deleteFound(h, self, pos) ==
  LET h1 == setNamedSlotValue(h, self, DescAt(h, self, pos), EmptyValue)
  IN [h1 EXCEPT ![self].clazz = HC_deleteProperty(@, pos)]

\* A variant that deletes the property where the lookup finds it, up the
\* prototype chain.
deleteNamedInherited(h, self, name, opFlags) ==
  LET f == getNamedDescriptor(h, self, name)
      pos == IF f.owner = NullObj THEN 0 ELSE findProperty(f.h, f.owner, name)
  IN IF pos = 0 THEN Ret(f.h, TrueV, <<>>)
     ELSE IF ~f.desc.flags.configurable THEN Reject(f.h, opFlags, <<>>)
     ELSE Ret(deleteFound(f.h, f.owner, pos), TrueV, <<>>)

\* A variant that runs the initializer on every miss, lazy object or not.
deleteNamedInitOnMiss(h, self, name, opFlags) ==
  LET h1 == IF findProperty(h, self, name) = 0
            THEN initializeLazyObject(h, self) ELSE h
      pos == findProperty(h1, self, name)
  IN IF pos = 0 THEN Ret(h1, TrueV, <<>>)
     ELSE IF ~DescAt(h1, self, pos).flags.configurable
     THEN Reject(h1, opFlags, <<>>)
     ELSE Ret(deleteFound(h1, self, pos), TrueV, <<>>)

deleteNamed(h, self, name, opFlags) ==
  LET h1 == IF findProperty(h, self, name) = 0 /\ h[self].lazyObject
            THEN initializeLazyObject(h, self) ELSE h
      pos == findProperty(h1, self, name)
  IN IF pos = 0 THEN Ret(h1, TrueV, <<>>)
     ELSE IF ~DescAt(h1, self, pos).flags.configurable
     THEN Reject(h1, opFlags, <<>>)
     ELSE Ret(deleteFound(h1, self, pos), TrueV, <<>>)

\* A variant that deletes the element and leaves the named property.
deleteComputedElementOnly(h, self, key, opFlags) ==
  LET arrayIndex == IF h[self].indexedStorage THEN TO_ARRAY_INDEX(key) ELSE -1
      deleted == deleteOwnIndexed(h, self, arrayIndex)
  IN IF arrayIndex < 0 THEN Ret(h, TrueV, <<>>)
     ELSE IF deleted.ok THEN Ret(deleted.h, TrueV, <<>>)
     ELSE Reject(deleted.h, opFlags, <<>>)

RECURSIVE deleteComputed(_, _, _, _)
deleteComputed(h, self, key, opFlags) ==
  LET arrayIndex == IF h[self].indexedStorage THEN TO_ARRAY_INDEX(key) ELSE -1
      pos == findProperty(h, self, valueToSymbolID(key))
      fast == deleteOwnIndexed(h, self, arrayIndex)
      deleted == IF arrayIndex >= 0 THEN deleteOwnIndexed(h, self, arrayIndex)
                 ELSE [h |-> h, ok |-> TRUE]
  IN IF arrayIndex >= 0 /\ h[self].fastIndexProperties
     THEN IF fast.ok THEN Ret(fast.h, TrueV, <<>>)
          ELSE Reject(fast.h, opFlags, <<>>)
     ELSE IF h[self].lazyObject
     THEN deleteComputed(initializeLazyObject(h, self), self, key, opFlags)
     ELSE IF pos # 0 /\ ~DescAt(h, self, pos).flags.configurable
     THEN Reject(h, opFlags, <<>>)
     ELSE IF ~deleted.ok THEN Reject(deleted.h, opFlags, <<>>)
     ELSE IF pos # 0 THEN Ret(deleteFound(deleted.h, self, pos), TrueV, <<>>)
     ELSE Ret(deleted.h, TrueV, <<>>)

(***************************************************************************)
(* Extensibility and the prototype.                                        *)
(***************************************************************************)
preventExtensions(h, self) == [h EXCEPT ![self].noExtend = TRUE]

\* A variant that leaves the object extensible.
sealKeepExtensible(h, self) ==
  IF h[self].sealed THEN h
  ELSE [h EXCEPT ![self].clazz = HC_makeAllNonConfigurable(@),
                 ![self].sealed = TRUE]

seal(h, self) ==
  IF h[self].sealed THEN h
  ELSE [h EXCEPT ![self].clazz = HC_makeAllNonConfigurable(@),
                 ![self].sealed = TRUE,
                 ![self].noExtend = TRUE]

freeze(h, self) ==
  IF h[self].frozen THEN h
  ELSE [h EXCEPT ![self].clazz = HC_makeAllReadOnly(@),
                 ![self].frozen = TRUE,
                 ![self].sealed = TRUE,
                 ![self].noExtend = TRUE]

isSealed(h, self) ==
  IF h[self].sealed THEN Ret(h, TrueV, <<>>)
  ELSE IF ~h[self].noExtend THEN Ret(h, FalseV, <<>>)
  ELSE IF ~HC_areAllNonConfigurable(h[self].clazz) THEN Ret(h, FalseV, <<>>)
  ELSE IF ~checkAllOwnIndexed(h, self, "NonConfigurable")
  THEN Ret(h, FalseV, <<>>)
  ELSE Ret([h EXCEPT ![self].sealed = TRUE], TrueV, <<>>)

\* A variant that scans extensible objects too.
isFrozenAnyObject(h, self) ==
  IF h[self].frozen THEN Ret(h, TrueV, <<>>)
  ELSE IF ~HC_areAllReadOnly(h[self].clazz) THEN Ret(h, FalseV, <<>>)
  ELSE IF ~checkAllOwnIndexed(h, self, "ReadOnly") THEN Ret(h, FalseV, <<>>)
  ELSE Ret([h EXCEPT ![self].frozen = TRUE, ![self].sealed = TRUE], TrueV,
           <<>>)

isFrozen(h, self) ==
  IF h[self].frozen THEN Ret(h, TrueV, <<>>)
  ELSE IF ~h[self].noExtend THEN Ret(h, FalseV, <<>>)
  ELSE IF ~HC_areAllReadOnly(h[self].clazz) THEN Ret(h, FalseV, <<>>)
  ELSE IF ~checkAllOwnIndexed(h, self, "ReadOnly") THEN Ret(h, FalseV, <<>>)
  ELSE Ret([h EXCEPT ![self].frozen = TRUE, ![self].sealed = TRUE], TrueV,
           <<>>)

\* The cycle check of setParent: is self on the chain that starts at cur?
RECURSIVE reachesSelf(_, _, _)
reachesSelf(h, cur, self) ==
  IF cur = NullObj THEN FALSE
  ELSE IF cur = self THEN TRUE
  ELSE reachesSelf(h, h[cur].parent, self)

\* setParent without its walk of the new parent's chain.
setParentUnchecked(h, self, parent) ==
  IF h[self].parent = parent THEN Ret(h, Undefined, <<>>)
  ELSE IF ~isExtensible(h, self) THEN Raise(h, "TypeError", <<>>)
  ELSE Ret([h EXCEPT ![self].parent = parent], Undefined, <<>>)

\* setParent with the extensibility test ahead of the same-parent test.
setParentExtensibleFirst(h, self, parent) ==
  IF ~isExtensible(h, self) THEN Raise(h, "TypeError", <<>>)
  ELSE IF h[self].parent = parent THEN Ret(h, Undefined, <<>>)
  ELSE IF reachesSelf(h, parent, self) THEN Raise(h, "TypeError", <<>>)
  ELSE Ret([h EXCEPT ![self].parent = parent], Undefined, <<>>)

setParent(h, self, parent) ==
  IF h[self].parent = parent THEN Ret(h, Undefined, <<>>)
  ELSE IF ~isExtensible(h, self) THEN Raise(h, "TypeError", <<>>)
  ELSE IF reachesSelf(h, parent, self) THEN Raise(h, "TypeError", <<>>)
  ELSE Ret([h EXCEPT ![self].parent = parent], Undefined, <<>>)

create(h, parent) == Append(h, NewObject(parent))

(***************************************************************************)
(* Enumeration of own property names.                                      *)
(***************************************************************************)
\* Names that start with "@" stand for Symbols and internal properties.
isPropertyNamePrimitive(name) == name[1] # "@"

\* The loop over the indexed range: the indexes present (and enumerable).
RECURSIVE indexedNames(_, _, _, _, _)
indexedNames(h, self, i, rangeEnd, onlyEnumerable) ==
  IF i = rangeEnd THEN <<>>
  ELSE LET res == getOwnIndexedPropertyFlags(h, self, i)
           rest == indexedNames(h, self, i + 1, rangeEnd, onlyEnumerable)
       IN IF ~res.present THEN rest
          ELSE IF onlyEnumerable /\ ~res.flags.enumerable THEN rest
          ELSE <<i>> \o rest

\* The forEachProperty callback, folded over the class table in order.  acc
\* holds the strings appended to the array, the stashed index-like names
\* and the dedup set.
RECURSIVE forEachProperty(_, _, _, _, _)
forEachProperty(props, i, onlyEnumerable, hostObjectSymbolCount, acc) ==
  IF i > Len(props) THEN acc
  ELSE LET id == props[i].name
           dedup == IF hostObjectSymbolCount > 0
                    THEN acc.dedupSet \cup {id} ELSE acc.dedupSet
           next ==
             IF ~isPropertyNamePrimitive(id) THEN acc
             ELSE IF onlyEnumerable /\ ~props[i].flags.enumerable THEN acc
             ELSE IF toArrayIndex(id) >= 0
             THEN [acc EXCEPT !.dedupSet = dedup,
                              !.indexNames = Append(@, toArrayIndex(id))]
             ELSE [acc EXCEPT !.dedupSet = dedup,
                              !.named = Append(@, StrKey(id))]
       IN forEachProperty(props, i + 1, onlyEnumerable,
                          hostObjectSymbolCount, next)

\* The loop over the names the host reports, skipping the ones seen.
RECURSIVE appendHostSymbols(_, _, _)
appendHostSymbols(hostObjectSymbols, i, acc) ==
  IF i > Len(hostObjectSymbols) THEN acc
  ELSE LET id == hostObjectSymbols[i]
           next ==
             IF id \in acc.dedupSet THEN acc
             ELSE IF toArrayIndex(id) >= 0
             THEN [acc EXCEPT !.dedupSet = @ \cup {id},
                              !.indexNames = Append(@, toArrayIndex(id))]
             ELSE [acc EXCEPT !.dedupSet = @ \cup {id},
                              !.named = Append(@, StrKey(id))]
       IN appendHostSymbols(hostObjectSymbols, i + 1, next)

\* The merge from the end of the indexed run a with the sorted indexNames.
RECURSIVE mergeIndexNames(_, _)
mergeIndexNames(a, indexNames) ==
  IF Len(a) + Len(indexNames) = 0 THEN <<>>
  ELSE IF Len(a) # 0
  THEN IF Len(indexNames) # 0 /\ indexNames[Len(indexNames)] > a[Len(a)]
       THEN Append(mergeIndexNames(a,
                     SubSeq(indexNames, 1, Len(indexNames) - 1)),
                   indexNames[Len(indexNames)])
       ELSE Append(mergeIndexNames(SubSeq(a, 1, Len(a) - 1), indexNames),
                   a[Len(a)])
  ELSE Append(mergeIndexNames(a, SubSeq(indexNames, 1, Len(indexNames) - 1)),
              indexNames[Len(indexNames)])

\* A variant that lists the index-like names after the other names.
getOwnPropertyNamesIndexLast(h, self, onlyEnumerable) ==
  LET h1 == IF h[self].lazyObject THEN initializeLazyObject(h, self) ELSE h
      range == getOwnIndexedRange(h1, self)
      hostObjectSymbols == IF h1[self].hostObject THEN h1[self].hostNames
                           ELSE <<>>
      array == indexedNames(h1, self, range[1], range[2], onlyEnumerable)
      acc0 == [named |-> <<>>, indexNames |-> <<>>, dedupSet |-> {}]
      acc1 == forEachProperty(h1[self].clazz.props, 1, onlyEnumerable,
                              Len(hostObjectSymbols), acc0)
      acc2 == appendHostSymbols(hostObjectSymbols, 1, acc1)
      toNum(q) == [i \in 1..Len(q) |-> NumKey(q[i])]
  IN Ret(h1,
         ListVal(acc2.named
                   \o toNum(mergeIndexNames(array,
                              SortSeq(acc2.indexNames,
                                      LAMBDA x, y : x < y)))),
         <<>>)

getOwnPropertyNames(h, self, onlyEnumerable) ==
  LET h1 == IF h[self].lazyObject THEN initializeLazyObject(h, self) ELSE h
      range == getOwnIndexedRange(h1, self)
      hostObjectSymbols == IF h1[self].hostObject THEN h1[self].hostNames
                           ELSE <<>>
      hostObjectSymbolCount == Len(hostObjectSymbols)
      array == indexedNames(h1, self, range[1], range[2], onlyEnumerable)
      acc0 == [named |-> <<>>, indexNames |-> <<>>, dedupSet |-> {}]
      acc1 == forEachProperty(h1[self].clazz.props, 1, onlyEnumerable,
                              hostObjectSymbolCount, acc0)
      acc2 == appendHostSymbols(hostObjectSymbols, 1, acc1)
      toNum(q) == [i \in 1..Len(q) |-> NumKey(q[i])]
  IN IF Len(acc2.indexNames) = 0
     THEN Ret(h1, ListVal(toNum(array) \o acc2.named), <<>>)
     ELSE Ret(h1,
              ListVal(toNum(mergeIndexNames(array,
                              SortSeq(acc2.indexNames,
                                      LAMBDA x, y : x < y)))
                        \o acc2.named),
              <<>>)

(***************************************************************************)
(* The for-in property list and its cache.  A cached array is the classes  *)
(* of the prototype chain, a null, then the names.                         *)
(***************************************************************************)
ClassEntry(clazz) == [k |-> "class", clazz |-> clazz]
NullEntry == [k |-> "null"]

shouldCacheForIn(h, o) ==
  /\ ~h[o].clazz.dict
  /\ ~h[o].indexedStorage
  /\ ~h[o].hostObject
  /\ ~h[o].lazyObject

\* Is prop already among arr[beginIndex .. size)?  A number and the string
\* that spells it are the same name.
dupFound(arr, beginIndex, prop) ==
  \E j \in (beginIndex + 1)..Len(arr) :
    IF prop.k = "num"
    THEN IF arr[j].k = "num" THEN arr[j].n = prop.n
         ELSE toArrayIndex(arr[j].s) >= 0 /\ toArrayIndex(arr[j].s) = prop.n
    ELSE IF arr[j].k = "num"
         THEN toArrayIndex(prop.s) >= 0 /\ toArrayIndex(prop.s) = arr[j].n
         ELSE arr[j].s = prop.s

RECURSIVE appendProps(_, _, _, _, _)
appendProps(arr, beginIndex, enumerableProps, i, needDedup) ==
  IF i > Len(enumerableProps) THEN arr
  ELSE IF ~needDedup \/ ~dupFound(arr, beginIndex, enumerableProps[i])
  THEN appendProps(Append(arr, enumerableProps[i]), beginIndex,
                   enumerableProps, i + 1, needDedup)
  ELSE appendProps(arr, beginIndex, enumerableProps, i + 1, needDedup)

RECURSIVE appendAllPropertyNamesLoop(_, _, _, _, _)
appendAllPropertyNamesLoop(h, head, arr, beginIndex, needDedup) ==
  IF head = NullObj THEN [h |-> h, arr |-> arr, size |-> Len(arr)]
  ELSE LET cr == getOwnPropertyNames(h, head, TRUE)
       IN appendAllPropertyNamesLoop(
            cr.h, cr.h[head].parent,
            appendProps(arr, beginIndex, cr.val.items, 1, needDedup),
            beginIndex, TRUE)

appendAllPropertyNames(h, obj, arr, beginIndex) ==
  appendAllPropertyNamesLoop(h, obj, arr, beginIndex, FALSE)

RECURSIVE setProtoClassesLoop(_, _, _)
setProtoClassesLoop(h, head, arr) ==
  IF head = NullObj THEN Append(arr, NullEntry)
  ELSE IF ~shouldCacheForIn(h, head) THEN <<>>
  ELSE setProtoClassesLoop(h, h[head].parent,
                           Append(arr, ClassEntry(h[head].clazz)))

setProtoClasses(h, obj, arr) ==
  IF ~shouldCacheForIn(h, obj) THEN <<>>
  ELSE setProtoClassesLoop(h, h[obj].parent, arr)

\* The index after the terminating null when the chain matches, else 0.
RECURSIVE matchesProtoClassesLoop(_, _, _, _)
matchesProtoClassesLoop(h, head, arr, i) ==
  IF head # NullObj
  THEN IF arr[i + 1].k = "null" \/ arr[i + 1] # ClassEntry(h[head].clazz)
       THEN 0
       ELSE matchesProtoClassesLoop(h, h[head].parent, arr, i + 1)
  ELSE IF arr[i + 1].k # "null" THEN 0
  ELSE i + 1

\* matchesProtoClasses without the test that both chains end together.
RECURSIVE matchesProtoClassesOpenLoop(_, _, _, _)
matchesProtoClassesOpenLoop(h, head, arr, i) ==
  IF head # NullObj
  THEN IF arr[i + 1].k = "null" \/ arr[i + 1] # ClassEntry(h[head].clazz)
       THEN 0
       ELSE matchesProtoClassesOpenLoop(h, h[head].parent, arr, i + 1)
  ELSE i + 1

matchesProtoClassesOpen(h, obj, arr) ==
  matchesProtoClassesOpenLoop(h, h[obj].parent, arr, 0)

matchesProtoClasses(h, obj, arr) ==
  matchesProtoClassesLoop(h, h[obj].parent, arr, 0)

NoCache == [c \in {} |-> <<>>]
HC_getForInCache(cache, clazz) ==
  IF clazz \in DOMAIN cache THEN cache[clazz] ELSE <<>>
HC_clearForInCache(cache, clazz) ==
  [c \in DOMAIN cache \ {clazz} |-> cache[c]]
HC_setForInCache(cache, clazz, arr) ==
  [c \in DOMAIN cache \cup {clazz} |-> IF c = clazz THEN arr ELSE cache[c]]

\* A variant that caches whatever the size of the array.
getForInPropertyNamesAnySize(h, cache, obj) ==
  LET clazz == h[obj].clazz
      cached == HC_getForInCache(cache, clazz)
      hit == IF Len(cached) # 0 THEN matchesProtoClasses(h, obj, cached)
             ELSE 0
      cache1 == IF Len(cached) # 0 THEN HC_clearForInCache(cache, clazz)
                ELSE cache
      arr0 == setProtoClasses(h, obj, <<>>)
      beginIndex == Len(arr0)
      canCache == beginIndex # 0
      end == appendAllPropertyNames(h, obj, arr0, beginIndex)
  IN IF hit # 0
     THEN [h |-> h, cache |-> cache, arr |-> cached, beginIndex |-> hit,
           endIndex |-> Len(cached), fromCache |-> TRUE]
     ELSE [h |-> end.h,
           cache |-> IF canCache THEN HC_setForInCache(cache1, clazz, end.arr)
                     ELSE cache1,
           arr |-> end.arr, beginIndex |-> beginIndex,
           endIndex |-> end.size, fromCache |-> FALSE]

getForInPropertyNames(h, cache, obj) ==
  LET clazz == h[obj].clazz
      cached == HC_getForInCache(cache, clazz)
      hit == IF Len(cached) # 0 THEN matchesProtoClasses(h, obj, cached)
             ELSE 0
      cache1 == IF Len(cached) # 0 THEN HC_clearForInCache(cache, clazz)
                ELSE cache
      ownPropEstimate == HC_getNumProperties(clazz)
      arr0 == setProtoClasses(h, obj, <<>>)
      beginIndex == Len(arr0)
      canCache == beginIndex # 0
      end == appendAllPropertyNames(h, obj, arr0, beginIndex)
      tooMuchProto == end.size \div 4 > ownPropEstimate
  IN IF hit # 0
     THEN [h |-> h, cache |-> cache, arr |-> cached, beginIndex |-> hit,
           endIndex |-> Len(cached), fromCache |-> TRUE]
     ELSE [h |-> end.h,
           cache |-> IF canCache /\ ~tooMuchProto
                     THEN HC_setForInCache(cache1, clazz, end.arr)
                     ELSE cache1,
           arr |-> end.arr, beginIndex |-> beginIndex,
           endIndex |-> end.size, fromCache |-> FALSE]

(***************************************************************************)
(* The calls.  A call is two steps: the operation itself, which changes    *)
(* the heap and records the call and its outcome in `last`, and Return,    *)
(* with which the caller is done with the outcome and the next call can    *)
(* start.                                                                  *)
(***************************************************************************)
NoDp ==
  DefinePropertyFlags(FALSE, FALSE, FALSE, FALSE, FALSE, FALSE, FALSE, FALSE,
                      FALSE)

NoOpFlags == PropOpFlags(FALSE, FALSE, FALSE)

\* A PropertyCacheEntry as a caller hands it to getNamed_RJS: ptr tells
\* whether the pointer is non-null, clazz and slot are what the entry holds.
PropertyCacheEntry(ptr, clazz, slot) ==
  [ptr |-> ptr, clazz |-> clazz, slot |-> slot]

NullClass == [null |-> TRUE]

NoCacheEntry == PropertyCacheEntry(FALSE, NullClass, 0)

NoCall ==
  [op |-> "init", self |-> NullObj, parent |-> NullObj, name |-> <<>>,
   key |-> StrKey(<<>>), v |-> Undefined, dp |-> NoDp, pf |-> NoFlags,
   opFlags |-> NoOpFlags, only |-> FALSE, st |-> "ok", val |-> Undefined,
   err |-> "", calls |-> <<>>, cacheEntry |-> NoCacheEntry,
   cacheAfter |-> NoCacheEntry, status |-> ""]

Outcome(call, r) ==
  [call EXCEPT !.st = r.st, !.val = r.val, !.err = r.err, !.calls = r.calls]

Idle == last.op = "init"

Return ==
  /\ ~Idle
  /\ last' = NoCall
  /\ UNCHANGED <<heap, forInCache, nextObjectID>>

Create(parent) ==
  /\ Idle
  /\ Len(heap) < MaxObjs
  /\ heap' = create(heap, parent)
  /\ last' = [NoCall EXCEPT !.op = "create", !.self = Len(heap) + 1,
                            !.parent = parent]
  /\ UNCHANGED <<forInCache, nextObjectID>>

PreventExtensions(self) ==
  /\ Idle
  /\ heap' = preventExtensions(heap, self)
  /\ last' = [NoCall EXCEPT !.op = "preventExtensions", !.self = self]
  /\ UNCHANGED <<forInCache, nextObjectID>>

Seal(self) ==
  /\ Idle
  /\ heap' = seal(heap, self)
  /\ last' = [NoCall EXCEPT !.op = "seal", !.self = self]
  /\ UNCHANGED <<forInCache, nextObjectID>>

Freeze(self) ==
  /\ Idle
  /\ heap' = freeze(heap, self)
  /\ last' = [NoCall EXCEPT !.op = "freeze", !.self = self]
  /\ UNCHANGED <<forInCache, nextObjectID>>

\* defineNewOwnProperty requires that the property does not exist yet.
DefineNewOwnProperty(self, name, propertyFlags, valueOrAccessor) ==
  /\ Idle
  /\ findProperty(heap, self, name) = 0
  /\ ~heap[self].lazyObject
  /\ \E r \in {defineNewOwnProperty(heap, self, name, propertyFlags,
                                    valueOrAccessor)} :
       /\ heap' = r.h
       /\ last' = Outcome([NoCall EXCEPT !.op = "defineNewOwnProperty",
                                         !.self = self, !.name = name,
                                         !.v = valueOrAccessor,
                                         !.pf = propertyFlags], r)
  /\ UNCHANGED <<forInCache, nextObjectID>>

GetForInPropertyNames(obj) ==
  /\ Idle
  /\ \E r \in {getForInPropertyNames(heap, forInCache, obj)} :
       /\ heap' = r.h
       /\ forInCache' = r.cache
       /\ last' = [NoCall EXCEPT !.op = "getForInPropertyNames",
                                 !.self = obj, !.only = r.fromCache,
                                 !.val = ListVal(SubSeq(r.arr,
                                                        r.beginIndex + 1,
                                                        r.endIndex))]
  /\ UNCHANGED nextObjectID

SetParent(self, parent) ==
  /\ Idle
  /\ \E r \in {setParent(heap, self, parent)} :
       /\ heap' = r.h
       /\ last' = Outcome([NoCall EXCEPT !.op = "setParent", !.self = self,
                                         !.parent = parent], r)
  /\ UNCHANGED <<forInCache, nextObjectID>>

IsSealed(self) ==
  /\ Idle
  /\ \E r \in {isSealed(heap, self)} :
       /\ heap' = r.h
       /\ last' = Outcome([NoCall EXCEPT !.op = "isSealed", !.self = self], r)
  /\ UNCHANGED <<forInCache, nextObjectID>>

IsFrozen(self) ==
  /\ Idle
  /\ \E r \in {isFrozen(heap, self)} :
       /\ heap' = r.h
       /\ last' = Outcome([NoCall EXCEPT !.op = "isFrozen", !.self = self], r)
  /\ UNCHANGED <<forInCache, nextObjectID>>

GetNamed(self, name) ==
  /\ Idle
  /\ \E r \in {getNamed_RJS(heap, self, name, NoOpFlags)} :
       /\ heap' = r.h
       /\ last' = Outcome([NoCall EXCEPT !.op = "getNamed", !.self = self,
                                         !.name = name], r)
  /\ UNCHANGED <<forInCache, nextObjectID>>

PutNamed(self, name, v, opFlags) ==
  /\ Idle
  /\ \E r \in {putNamed_RJS(heap, self, name, v, opFlags)} :
       /\ heap' = r.h
       /\ last' = Outcome([NoCall EXCEPT !.op = "putNamed", !.self = self,
                                         !.name = name, !.v = v,
                                         !.opFlags = opFlags], r)
  /\ UNCHANGED <<forInCache, nextObjectID>>

PutComputed(self, key, v, opFlags) ==
  /\ Idle
  /\ \E r \in {putComputed_RJS(heap, self, key, v, opFlags)} :
       /\ heap' = r.h
       /\ last' = Outcome([NoCall EXCEPT !.op = "putComputed", !.self = self,
                                         !.key = key, !.v = v,
                                         !.opFlags = opFlags], r)
  /\ UNCHANGED <<forInCache, nextObjectID>>

DefineOwnProperty(self, name, dpFlags, valueOrAccessor, opFlags) ==
  /\ Idle
  /\ \E r \in {defineOwnProperty(heap, self, name, dpFlags, valueOrAccessor,
                                 opFlags)} :
       /\ heap' = r.h
       /\ last' = Outcome([NoCall EXCEPT !.op = "defineOwnProperty",
                                         !.self = self, !.name = name,
                                         !.v = valueOrAccessor,
                                         !.dp = dpFlags, !.opFlags = opFlags], r)
  /\ UNCHANGED <<forInCache, nextObjectID>>

DefineOwnComputed(self, key, dpFlags, valueOrAccessor, opFlags) ==
  /\ Idle
  /\ \E r \in {defineOwnComputed(heap, self, key, dpFlags, valueOrAccessor,
                                 opFlags)} :
       /\ heap' = r.h
       /\ last' = Outcome([NoCall EXCEPT !.op = "defineOwnComputed",
                                         !.self = self, !.key = key,
                                         !.v = valueOrAccessor,
                                         !.dp = dpFlags, !.opFlags = opFlags], r)
  /\ UNCHANGED <<forInCache, nextObjectID>>

DeleteNamed(self, name, opFlags) ==
  /\ Idle
  /\ \E r \in {deleteNamed(heap, self, name, opFlags)} :
       /\ heap' = r.h
       /\ last' = Outcome([NoCall EXCEPT !.op = "deleteNamed", !.self = self,
                                         !.name = name, !.opFlags = opFlags], r)
  /\ UNCHANGED <<forInCache, nextObjectID>>

DeleteComputed(self, key, opFlags) ==
  /\ Idle
  /\ \E r \in {deleteComputed(heap, self, key, opFlags)} :
       /\ heap' = r.h
       /\ last' = Outcome([NoCall EXCEPT !.op = "deleteComputed",
                                         !.self = self, !.key = key,
                                         !.opFlags = opFlags], r)
  /\ UNCHANGED <<forInCache, nextObjectID>>

GetOwnPropertyNames(self, onlyEnumerable) ==
  /\ Idle
  /\ \E r \in {getOwnPropertyNames(heap, self, onlyEnumerable)} :
       /\ heap' = r.h
       /\ last' = Outcome([NoCall EXCEPT !.op = "getOwnPropertyNames",
                                         !.self = self,
                                         !.only = onlyEnumerable], r)
  /\ UNCHANGED <<forInCache, nextObjectID>>

HasNamedOrIndexed(self, name) ==
  /\ Idle
  /\ \E r \in {hasNamedOrIndexed(heap, self, name)} :
       /\ heap' = r.h
       /\ last' = Outcome([NoCall EXCEPT !.op = "hasNamedOrIndexed",
                                         !.self = self, !.name = name], r)
  /\ UNCHANGED <<forInCache, nextObjectID>>

HasComputed(self, key) ==
  /\ Idle
  /\ \E r \in {hasComputed(heap, self, key)} :
       /\ heap' = r.h
       /\ last' = Outcome([NoCall EXCEPT !.op = "hasComputed", !.self = self,
                                         !.key = key], r)
  /\ UNCHANGED <<forInCache, nextObjectID>>

(***************************************************************************)
(* SpecProto: objects are created and re-parented.                         *)
(***************************************************************************)
InitProto ==
  /\ heap = <<NewObject(NullObj)>>
  /\ forInCache = NoCache
  /\ nextObjectID = 0
  /\ last = NoCall

NextProto ==
  \/ \E parent \in ObjIds \cup {NullObj} : Create(parent)
  \/ \E self \in ObjIds, parent \in ObjIds \cup {NullObj} :
       SetParent(self, parent)
  \/ \E self \in ObjIds : PreventExtensions(self)
  \/ Return

SpecProto == InitProto /\ [][NextProto]_vars

\* The object n parent links above o, NullObj once the chain has ended.
RECURSIVE Ancestor(_, _)
Ancestor(o, n) ==
  IF o = NullObj \/ n = 0 THEN o ELSE Ancestor(heap[o].parent, n - 1)

\* C3: the prototype graph is acyclic: from every object, following parent
\* reaches null within as many steps as there are objects.
C3_Acyclic == \A o \in ObjIds : Ancestor(o, Len(heap)) = NullObj

\* C3 witness: setParent refused to close a cycle on an extensible object.
C3_CycleRefused ==
  /\ last.op = "setParent"
  /\ last.st = "exc"
  /\ isExtensible(heap, last.self)
  /\ last.parent # NullObj
  /\ \E n \in 0..Len(heap) : Ancestor(last.parent, n) = last.self

(***************************************************************************)
(* SpecDefine: one object, one name, every well-formed descriptor.         *)
(***************************************************************************)
Vals == {JSVal("v1"), JSVal("v2")}
Fns == {NullFn, "g1", "g2"}
PName == <<"p">>

\* The requests a caller builds from a property descriptor: an attribute
\* bit is given only with its set bit, a value only with setValue, and an
\* accessor cell holds null for the half that is not mentioned.
DataRequests ==
  {[dp |-> DefinePropertyFlags(se, se /\ e, sw, sw /\ w, sc, sc /\ c, FALSE,
                               FALSE, sv),
    v |-> IF sv THEN v ELSE Undefined] :
     se \in BOOLEAN, e \in BOOLEAN, sw \in BOOLEAN, w \in BOOLEAN,
     sc \in BOOLEAN, c \in BOOLEAN, sv \in BOOLEAN, v \in Vals}

AccessorRequests ==
  {[dp |-> DefinePropertyFlags(se, se /\ e, FALSE, FALSE, sc, sc /\ c,
                               m[1], m[2], FALSE),
    v |-> PropertyAccessor(IF m[1] THEN g ELSE NullFn,
                           IF m[2] THEN t ELSE NullFn)] :
     se \in BOOLEAN, e \in BOOLEAN, sc \in BOOLEAN, c \in BOOLEAN,
     m \in {<<TRUE, FALSE>>, <<FALSE, TRUE>>, <<TRUE, TRUE>>},
     g \in Fns, t \in Fns}

Requests == DataRequests \cup AccessorRequests

ThrowFlags == {PropOpFlags(t, FALSE, FALSE) : t \in BOOLEAN}

InitDefine ==
  /\ heap = <<NewObject(NullObj)>>
  /\ forInCache = NoCache
  /\ nextObjectID = 0
  /\ last = NoCall

NextDefine ==
  \/ \E req \in Requests, opFlags \in ThrowFlags :
       DefineOwnProperty(1, PName, req.dp, req.v, opFlags)
  \/ Return

SpecDefine == InitDefine /\ [][NextDefine]_vars

\* The own named property of an object as a descriptor: its flags and what
\* its slot holds.
OwnProp(h, o, name) ==
  LET pos == HC_findProperty(h[o].clazz, name)
  IN [flags |-> h[o].clazz.props[pos].flags,
      value |-> h[o].slots[h[o].clazz.props[pos].slot + 1]]

HasOwn(h, o, name) == HC_findProperty(h[o].clazz, name) # 0

\* The changes the claim lists as refused on a non-configurable property.
RefusedChange(cur, dp, v) ==
  \/ dp.setConfigurable /\ dp.configurable
  \/ dp.setEnumerable /\ dp.enumerable # cur.flags.enumerable
  \/ cur.flags.accessor /\ (dp.setValue \/ dp.setWritable)
  \/ ~cur.flags.accessor /\ (dp.setGetter \/ dp.setSetter)
  \/ /\ ~cur.flags.accessor
     /\ ~cur.flags.writable
     /\ \/ dp.setWritable /\ dp.writable
        \/ dp.setValue /\ v # cur.value
  \/ /\ cur.flags.accessor
     /\ \/ dp.setGetter /\ v.getter # cur.value.getter
        \/ dp.setSetter /\ v.setter # cur.value.setter

\* What stays as it is on a non-configurable property, whatever the call.
Preserved(cur, new) ==
  /\ ~new.flags.configurable
  /\ new.flags.enumerable = cur.flags.enumerable
  /\ new.flags.accessor = cur.flags.accessor
  /\ (~cur.flags.accessor /\ ~cur.flags.writable =>
        ~new.flags.writable /\ new.value = cur.value)

IsDefineOnNonConfigurable ==
  /\ last'.op = "defineOwnProperty"
  /\ ~last'.opFlags.internalForce
  /\ HasOwn(heap, last'.self, last'.name)
  /\ ~OwnProp(heap, last'.self, last'.name).flags.configurable

\* C1: a defineOwnProperty on a non-configurable own property is refused
\* (false, or TypeError under throwOnError) exactly when it asks for one of
\* the changes ES5 8.12.9 forbids there, a refused call changes nothing, an
\* accepted one returns true, and either way the property stays
\* non-configurable, keeps its enumerable bit and its kind, and, when it is
\* a non-writable data property, its writable bit and value.
C1_NonConfigurableUpdates ==
  [][IsDefineOnNonConfigurable =>
       LET cur == OwnProp(heap, last'.self, last'.name)
           refused == RefusedChange(cur, last'.dp, last'.v)
       IN /\ HasOwn(heap', last'.self, last'.name)
          /\ Preserved(cur, OwnProp(heap', last'.self, last'.name))
          /\ refused =>
               /\ heap' = heap
               /\ IF last'.opFlags.throwOnError
                  THEN last'.st = "exc" /\ last'.err = "TypeError"
                  ELSE last'.st = "ok" /\ last'.val = FalseV
          /\ ~refused => last'.st = "ok" /\ last'.val = TrueV]_vars

\* C1 witness: a call on a non-configurable property was refused.
C1_RefusedOnNonConfigurable ==
  /\ last.op = "defineOwnProperty"
  /\ last.st = "ok"
  /\ last.val = FalseV
  /\ HasOwn(heap, last.self, last.name)
  /\ ~OwnProp(heap, last.self, last.name).flags.configurable

(***************************************************************************)
(* SpecForIn: three plain objects whose properties and prototypes change   *)
(* between for-in enumerations.                                            *)
(***************************************************************************)
AName == <<"a">>
BName == <<"b">>
V1 == JSVal("v1")

InitForIn ==
  /\ heap = <<NewObject(NullObj), NewObject(NullObj), NewObject(NullObj)>>
  /\ forInCache = NoCache
  /\ nextObjectID = 0
  /\ last = NoCall

NextForIn ==
  \/ \E self \in ObjIds, parent \in ObjIds \cup {NullObj} :
       SetParent(self, parent)
  \/ \E self \in ObjIds : PutNamed(self, AName, V1, NoOpFlags)
  \/ \E obj \in ObjIds : GetForInPropertyNames(obj)
  \/ \E self \in ObjIds : DeleteNamed(self, AName, NoOpFlags)
  \/ Return

SpecForIn == InitForIn /\ [][NextForIn]_vars

\* The classes of the objects above o, nearest first.
RECURSIVE ChainClasses(_, _)
ChainClasses(h, o) ==
  IF h[o].parent = NullObj THEN <<>>
  ELSE <<ClassEntry(h[h[o].parent].clazz)>> \o ChainClasses(h, h[o].parent)

\* The prefix of a cached array: its entries before the first null.
CachePrefix(arr) ==
  SubSeq(arr, 1, (CHOOSE i \in 1..Len(arr) :
                    arr[i].k = "null"
                    /\ \A j \in 1..(i - 1) : arr[j].k # "null") - 1)

CacheNames(arr) == SubSeq(arr, Len(CachePrefix(arr)) + 2, Len(arr))

\* The enumerable own string names of o in class order, then those of each
\* prototype that no nearer object has: what a fresh enumeration yields.
RECURSIVE FreshNames(_, _, _)
FreshNames(h, o, seen) ==
  IF o = NullObj THEN <<>>
  ELSE LET props == h[o].clazz.props
           own == SelectSeq([i \in 1..Len(props) |->
                               IF props[i].flags.enumerable
                               THEN StrKey(props[i].name)
                               ELSE StrKey(<<>>)],
                            LAMBDA x : x # StrKey(<<>>))
           new == SelectSeq(own, LAMBDA x : x \notin seen)
       IN new \o FreshNames(h, h[o].parent,
                            seen \cup {own[i] : i \in 1..Len(own)})

\* C4: when the class of the receiver holds a cache, getForInPropertyNames
\* returns the cached names and keeps the cache if the classes of the
\* prototype chain are exactly the cached prefix; otherwise it returns a
\* freshly built list and the stale array is no longer the cache.
C4_ForInCacheSound ==
  [][(last'.op = "getForInPropertyNames"
        /\ heap[last'.self].clazz \in DOMAIN forInCache) =>
       LET clazz == heap[last'.self].clazz
           cached == forInCache[clazz]
       IN IF ChainClasses(heap, last'.self) = CachePrefix(cached)
          THEN /\ last'.val = ListVal(CacheNames(cached))
               /\ forInCache' = forInCache
          ELSE /\ last'.val = ListVal(FreshNames(heap, last'.self, {}))
               /\ \/ clazz \notin DOMAIN forInCache'
                  \/ /\ CachePrefix(forInCache'[clazz])
                          = ChainClasses(heap, last'.self)
                     /\ CacheNames(forInCache'[clazz])
                          = FreshNames(heap, last'.self, {})]_vars

\* C4 witness: an enumeration answered from the cache for a receiver that
\* has a prototype.
C4_CacheHit ==
  /\ last.op = "getForInPropertyNames"
  /\ last.only
  /\ heap[last.self].parent # NullObj
  /\ Len(last.val.items) > 0

(***************************************************************************)
(* Spec: an object with a prototype is written, redefined, sealed and      *)
(* frozen.  The prototype (object 1) holds one writable data property, c;  *)
(* the receiver (object 2) gets a through every kind of call and a c of    *)
(* its own through puts and defineNewOwnProperty.                          *)
(***************************************************************************)
CName == <<"c">>
V2 == JSVal("v2")
Receiver == 2

\* Partial descriptors, one aspect each, and two full ones.
SealRequests ==
  {[dp |-> getDefaultNewPropertyFlags, v |-> V1],
   [dp |-> [NoDp EXCEPT !.setValue = TRUE], v |-> V2],
   [dp |-> [NoDp EXCEPT !.setWritable = TRUE], v |-> Undefined],
   [dp |-> [NoDp EXCEPT !.setWritable = TRUE, !.writable = TRUE],
    v |-> Undefined],
   [dp |-> [NoDp EXCEPT !.setConfigurable = TRUE], v |-> Undefined],
   [dp |-> [NoDp EXCEPT !.setConfigurable = TRUE, !.configurable = TRUE],
    v |-> Undefined],
   [dp |-> [NoDp EXCEPT !.setEnumerable = TRUE], v |-> Undefined],
   [dp |-> [NoDp EXCEPT !.setEnumerable = TRUE, !.enumerable = TRUE],
    v |-> Undefined],
   [dp |-> DefinePropertyFlags(TRUE, TRUE, FALSE, FALSE, TRUE, TRUE, TRUE,
                               TRUE, FALSE),
    v |-> PropertyAccessor("g1", "s1")]}

AllOpFlags == {PropOpFlags(t, FALSE, f) : t \in BOOLEAN, f \in BOOLEAN}

Init ==
  /\ heap = Append(addOwnPropertyImpl(<<NewObject(NullObj)>>, 1, CName,
                                      defaultNewNamedPropertyFlags, V1),
                   NewObject(1))
  /\ forInCache = NoCache
  /\ nextObjectID = 0
  /\ last = NoCall

DefineRequests ==
  {[dp |-> getDefaultNewPropertyFlags, v |-> V1],
   [dp |-> [NoDp EXCEPT !.setValue = TRUE], v |-> V2],
   [dp |-> [NoDp EXCEPT !.setConfigurable = TRUE, !.configurable = TRUE],
    v |-> Undefined]}

Next ==
  \/ \E name \in {AName, CName}, v \in Vals, opFlags \in ThrowFlags :
       PutNamed(Receiver, name, v, opFlags)
  \/ \E v \in Vals, opFlags \in ThrowFlags :
       PutComputed(Receiver, StrKey(AName), v, opFlags)
  \/ \E req \in SealRequests, opFlags \in AllOpFlags :
       DefineOwnProperty(Receiver, AName, req.dp, req.v, opFlags)
  \/ \E req \in DefineRequests, opFlags \in ThrowFlags :
       DefineOwnComputed(Receiver, StrKey(AName), req.dp, req.v, opFlags)
  \/ DefineNewOwnProperty(Receiver, CName, defaultNewNamedPropertyFlags, V1)
  \/ \E name \in {AName, CName}, opFlags \in ThrowFlags :
       DeleteNamed(Receiver, name, opFlags)
  \/ \E opFlags \in ThrowFlags :
       DeleteComputed(Receiver, StrKey(CName), opFlags)
  \/ PreventExtensions(Receiver)
  \/ Seal(Receiver)
  \/ Freeze(Receiver)
  \/ IsSealed(Receiver)
  \/ IsFrozen(Receiver)
  \/ Return

Spec == Init /\ [][Next]_vars

\* The own named properties of an object, as descriptors.
OwnProps(h, o) ==
  {OwnProp(h, o, h[o].clazz.props[i].name) : i \in 1..Len(h[o].clazz.props)}

AllNonConfigurable(h, o) ==
  \A p \in OwnProps(h, o) : ~p.flags.configurable

AllDataReadOnly(h, o) ==
  \A p \in OwnProps(h, o) : ~p.flags.accessor => ~p.flags.writable

\* C2: in every reachable state, an object whose sealed flag is set has its
\* noExtend flag set and only non-configurable own named properties, and an
\* object whose frozen flag is set has, in addition, only non-writable own
\* named data properties.
C2_SealedFrozenFlags ==
  \A o \in ObjIds :
    /\ heap[o].sealed => heap[o].noExtend /\ AllNonConfigurable(heap, o)
    /\ heap[o].frozen =>
         /\ heap[o].sealed
         /\ heap[o].noExtend
         /\ AllNonConfigurable(heap, o)
         /\ AllDataReadOnly(heap, o)

\* A request that would change the enumerable or the configurable attribute
\* of the property it names.
ChangesAttributes(cur, dp) ==
  \/ dp.setEnumerable /\ dp.enumerable # cur.flags.enumerable
  \/ dp.setConfigurable /\ dp.configurable # cur.flags.configurable

\* Every request of the set that would change the enumerable or the
\* configurable attribute of an own property of o is refused in h, by
\* defineOwnProperty and by defineOwnComputed, and changes nothing.
AttributeChangesRefused(h, o, name) ==
  \A req \in SealRequests, opFlags \in ThrowFlags :
    HasOwn(h, o, name) /\ ChangesAttributes(OwnProp(h, o, name), req.dp) =>
      /\ \E r \in {defineOwnProperty(h, o, name, req.dp, req.v, opFlags)} :
           Failed(r) /\ r.h = h
      /\ \E r \in {defineOwnComputed(h, o, StrKey(name), req.dp, req.v,
                                     opFlags)} :
           Failed(r) /\ r.h = h

\* C8: in the state seal(O) leaves, every own property of O is
\* non-configurable, and every defineOwnProperty or defineOwnComputed that
\* would change the enumerable or configurable attribute of an own property
\* fails.
C8_AfterSeal ==
  [][last'.op = "seal" =>
       /\ AllNonConfigurable(heap', last'.self)
       /\ \A name \in {AName, CName} :
            AttributeChangesRefused(heap', last'.self, name)]_vars

\* A sealed object: one that seal has sealed, or one that isSealed finds
\* sealed (not extensible, every own property non-configurable).
IsSealedObject(h, o) ==
  h[o].sealed \/ (h[o].noExtend /\ AllNonConfigurable(h, o))

\* A put that finds no property of that name, neither on the receiver nor
\* on an object of its prototype chain.
PutOfUnknownName ==
  /\ last'.op = "putNamed"
  /\ \A o \in ObjIds : ~HasOwn(heap, o, last'.name)

PutOnWritableOwnData ==
  /\ last'.op = "putNamed"
  /\ HasOwn(heap, last'.self, last'.name)
  /\ ~OwnProp(heap, last'.self, last'.name).flags.accessor
  /\ OwnProp(heap, last'.self, last'.name).flags.writable

\* The heap with the value of one own named property replaced.
WithValue(h, o, name, v) ==
  [h EXCEPT ![o].slots[h[o].clazz.props[HC_findProperty(h[o].clazz,
                                                         name)].slot + 1] = v]

\* C9: on a sealed object, putNamed of a name that neither the object nor
\* its prototype chain holds fails (TypeError under throwOnError, false
\* otherwise) and adds nothing; preventExtensions changes nothing; putNamed
\* on a writable own data property of a sealed object that is not frozen
\* returns true and stores the value, and nothing else changes.
C9_SealedPuts ==
  [][/\ PutOfUnknownName /\ IsSealedObject(heap, last'.self) =>
          /\ heap' = heap
          /\ IF last'.opFlags.throwOnError
             THEN last'.st = "exc" /\ last'.err = "TypeError"
             ELSE last'.st = "ok" /\ last'.val = FalseV
     /\ last'.op = "preventExtensions" /\ IsSealedObject(heap, last'.self)
          => heap' = heap
     /\ /\ PutOnWritableOwnData
        /\ IsSealedObject(heap, last'.self)
        /\ ~heap[last'.self].frozen
        => /\ last'.st = "ok" /\ last'.val = TrueV
           /\ heap' = WithValue(heap, last'.self, last'.name, last'.v)]_vars

\* A put of a new name has just been refused by a sealed object, which also
\* holds a writable property that a put has given the value v2.
C9_RefusedOnSealed ==
  /\ last.op = "putNamed"
  /\ last.name = AName
  /\ ~last.opFlags.throwOnError
  /\ last.val = FalseV
  /\ heap[Receiver].sealed
  /\ ~heap[Receiver].frozen
  /\ \A o \in ObjIds : ~HasOwn(heap, o, AName)
  /\ HasOwn(heap, Receiver, CName)
  /\ OwnProp(heap, Receiver, CName).flags.writable
  /\ OwnProp(heap, Receiver, CName).value = V2

\* Every put of the set that targets an own data property of o is refused
\* in h, by putNamed and by putComputed, and leaves the heap as it is.
WritesRefused(h, o, name) ==
  \A v \in Vals, opFlags \in ThrowFlags :
    HasOwn(h, o, name) /\ ~OwnProp(h, o, name).flags.accessor =>
      \A r \in {putNamed_RJS(h, o, name, v, opFlags),
                putComputed_RJS(h, o, StrKey(name), v, opFlags)} :
        /\ r.h = h
        /\ IF opFlags.throwOnError
           THEN r.st = "exc" /\ r.err = "TypeError"
           ELSE r.st = "ok" /\ r.val = FalseV

\* C10: in the state freeze(O) leaves, every own data property of O is
\* non-writable, and every putNamed or putComputed that targets an own data
\* property fails (TypeError under throwOnError, false otherwise) and leaves
\* the stored value as it was.
C10_AfterFreeze ==
  [][last'.op = "freeze" =>
       /\ AllDataReadOnly(heap', last'.self)
       /\ \A name \in {AName, CName} :
            WritesRefused(heap', last'.self, name)]_vars

\* The first object that holds the name, from o up its prototype chain, or
\* NullObj when none does.
RECURSIVE Holder(_, _, _)
Holder(h, o, name) ==
  IF o = NullObj THEN NullObj
  ELSE IF HasOwn(h, o, name) THEN o
  ELSE Holder(h, h[o].parent, name)

\* A putNamed with default flags on an extensible plain object.
DefaultPut ==
  /\ last'.op = "putNamed"
  /\ last'.opFlags = NoOpFlags
  /\ isExtensible(heap, last'.self)
  /\ ~heap[last'.self].hostObject
  /\ ~heap[last'.self].lazyObject

\* The name resolves to nothing, or to a writable data property.
ResolvesToWritableData(h, o, name) ==
  \/ Holder(h, o, name) = NullObj
  \/ /\ ~OwnProp(h, Holder(h, o, name), name).flags.accessor
     /\ OwnProp(h, Holder(h, o, name), name).flags.writable

ReadsBack ==
  \E r \in {getNamed_RJS(heap', last'.self, last'.name, NoOpFlags)} :
    r.st = "ok" /\ r.val = last'.v

\* C5: after putNamed(O, P, v) with default flags on an extensible plain
\* object on which P resolved to nothing or to a writable data property
\* (own or inherited), the put has returned true and getNamed(O, P)
\* returns v.
C5_PutThenGet ==
  [][DefaultPut /\ ResolvesToWritableData(heap, last'.self, last'.name) =>
       last'.st = "ok" /\ last'.val = TrueV /\ ReadsBack]_vars

\* C5 as stated: after putNamed(O, P, v) with default flags on an
\* extensible plain object, whatever P resolved to, getNamed(O, P) returns v.
C5_PutThenGetAnyProperty == [][DefaultPut => ReadsBack]_vars

\* A put of c has given the receiver a c of its own, which hides the value
\* the prototype still holds.
C5_PutShadowsInherited ==
  /\ last.op = "putNamed"
  /\ last.opFlags = NoOpFlags
  /\ last.name = CName
  /\ last.v = V2
  /\ last.val = TrueV
  /\ isExtensible(heap, Receiver)
  /\ HasOwn(heap, Receiver, CName)
  /\ OwnProp(heap, Receiver, CName).value = V2
  /\ OwnProp(heap, heap[Receiver].parent, CName).value = V1

(***************************************************************************)
(* SpecIndexed: index-like names and host names.  Object 1 is a plain      *)
(* prototype, object 2 has indexed storage and object 1 as its prototype,  *)
(* object 3 is a host object that reports the names p and b.               *)
(***************************************************************************)
Proto == 1
Indexed == 2
Host == 3

Indexes == {0, 1}

\* A full data descriptor, and one that is not enumerable.
IndexedRequests ==
  {getDefaultNewPropertyFlags,
   [getDefaultNewPropertyFlags EXCEPT !.enumerable = FALSE]}

InitIndexed ==
  /\ heap = <<NewObject(NullObj), NewIndexedObject(Proto),
              NewHostObject(NullObj, <<PName, BName>>)>>
  /\ forInCache = NoCache
  /\ nextObjectID = 0
  /\ last = NoCall

NextIndexed ==
  \/ \E i \in Indexes : PutComputed(Indexed, NumKey(i), V1, NoOpFlags)
  \/ PutComputed(Proto, NumKey(0), V1, NoOpFlags)
  \/ \E i \in Indexes, dp \in IndexedRequests :
       DefineOwnComputed(Indexed, NumKey(i), dp, V1, NoOpFlags)
  \/ \E dp \in IndexedRequests :
       DefineOwnProperty(Host, PName, dp, V1, NoOpFlags)
  \/ DefineOwnProperty(Indexed, PName, getDefaultNewPropertyFlags, V1,
                       NoOpFlags)
  \/ \E i \in Indexes : DeleteComputed(Indexed, NumKey(i), NoOpFlags)
  \/ \E o \in ObjIds, onlyEnumerable \in BOOLEAN :
       GetOwnPropertyNames(o, onlyEnumerable)
  \/ \E o \in {Proto, Indexed}, i \in Indexes :
       HasNamedOrIndexed(o, numberToString(i))
  \/ \E o \in {Proto, Indexed}, i \in Indexes : HasComputed(o, NumKey(i))
  \/ Return

SpecIndexed == InitIndexed /\ [][NextIndexed]_vars

\* q without the later occurrences of an element.
RECURSIVE Distinct(_)
Distinct(q) ==
  IF Len(q) = 0 THEN <<>>
  ELSE LET front == Distinct(SubSeq(q, 1, Len(q) - 1))
       IN IF \E j \in 1..(Len(q) - 1) : q[j] = q[Len(q)] THEN front
          ELSE Append(front, q[Len(q)])

\* The elements of a set of numbers, ascending.
RECURSIVE Ascending(_)
Ascending(S) ==
  IF S = {} THEN <<>>
  ELSE LET m == CHOOSE x \in S : \A y \in S : x <= y
       IN <<m>> \o Ascending(S \ {m})

\* The names of the class of o, in insertion order, that are not Symbols
\* (and are enumerable).
ClassNames(h, o, onlyEnumerable) ==
  LET props == h[o].clazz.props
      kept(pr) == /\ isPropertyNamePrimitive(pr.name)
                  /\ onlyEnumerable => pr.flags.enumerable
      q == SelectSeq(props, kept)
  IN [i \in 1..Len(q) |-> q[i].name]

\* The names the host reports that the class of o does not hold.
HostOnlyNames(h, o) ==
  LET notInClass(name) == ~HasOwn(h, o, name)
  IN Distinct(SelectSeq(h[o].hostNames, notInClass))

\* The sequence the order rule gives: the index names ascending, then the
\* other names of the class, then the other names of the host.
ExpectedNames(h, o, onlyEnumerable) ==
  LET isIndex(name) == toArrayIndex(name) >= 0
      notIndex(name) == toArrayIndex(name) < 0
      classNames == ClassNames(h, o, onlyEnumerable)
      hostNames == HostOnlyNames(h, o)
      elements ==
        {i \in 0..(Len(h[o].indexed) - 1) :
           /\ h[o].indexed[i + 1] # EmptyValue
           /\ onlyEnumerable =>
                getOwnIndexedPropertyFlags(h, o, i).flags.enumerable}
      indexLike == SelectSeq(classNames, isIndex) \o SelectSeq(hostNames, isIndex)
      indexes == elements
                   \cup {toArrayIndex(indexLike[j]) : j \in 1..Len(indexLike)}
      run == Ascending(indexes)
      named == SelectSeq(classNames, notIndex) \o SelectSeq(hostNames, notIndex)
  IN [i \in 1..Len(run) |-> NumKey(run[i])]
       \o [i \in 1..Len(named) |-> StrKey(named[i])]

\* C6: getOwnPropertyNames returns the index names in ascending order, then
\* the other non-symbol names of the class in insertion order, then the
\* names the host reports that the class does not hold; with onlyEnumerable
\* it is that sequence without the properties that are not enumerable.
C6_OwnPropertyNamesOrder ==
  [][last'.op = "getOwnPropertyNames" =>
       /\ last'.st = "ok"
       /\ last'.val =
            ListVal(ExpectedNames(heap, last'.self, last'.only))]_vars

\* An element or a named property of that index on o or up its chain.
RECURSIVE IndexInChain(_, _, _)
IndexInChain(h, o, i) ==
  IF o = NullObj THEN FALSE
  ELSE \/ i < Len(h[o].indexed) /\ h[o].indexed[i + 1] # EmptyValue
       \/ HasOwn(h, o, numberToString(i))
       \/ IndexInChain(h, h[o].parent, i)

\* C7: hasNamedOrIndexed(O, toSymbol(i)) is true exactly when an element i
\* or a named property spelled i exists on O or up its prototype chain, and
\* so agrees with hasComputed(O, i).
C7_HasNamedOrIndexed ==
  [][last'.op = "hasNamedOrIndexed" =>
       /\ last'.val = TrueV <=>
            IndexInChain(heap, last'.self, toArrayIndex(last'.name))
       /\ last'.val =
            hasComputed(heap, last'.self,
                        NumKey(toArrayIndex(last'.name))).val]_vars

(***************************************************************************)
(* Redefinition with the descriptor the property already has.              *)
(***************************************************************************)
\* Every attribute the request mentions equals the current one.
SameAttributes(cur, dp) ==
  /\ dp.setEnumerable => dp.enumerable = cur.flags.enumerable
  /\ dp.setWritable => dp.writable = cur.flags.writable
  /\ dp.setConfigurable => dp.configurable = cur.flags.configurable

\* The request mentions nothing that differs from the property: its
\* attributes, and its value on a data property or the halves it mentions
\* on an accessor.
SameDescriptor(cur, dp, v) ==
  /\ SameAttributes(cur, dp)
  /\ dp.setValue => ~cur.flags.accessor /\ v = cur.value
  /\ dp.setGetter => cur.flags.accessor /\ v.getter = cur.value.getter
  /\ dp.setSetter => cur.flags.accessor /\ v.setter = cur.value.setter

DefineOnExisting ==
  /\ last'.op = "defineOwnProperty"
  /\ HasOwn(heap, last'.self, last'.name)

\* C11: a defineOwnProperty whose descriptor mentions only what the own
\* property already has returns true and leaves the flags, the slot and the
\* hidden class as they were, also on a non-writable non-configurable
\* property; with a value that is not the current one, on a non-writable
\* non-configurable data property, it fails.
C11_SameDescriptorIsNoOp ==
  [][DefineOnExisting =>
       LET cur == OwnProp(heap, last'.self, last'.name)
       IN /\ SameDescriptor(cur, last'.dp, last'.v) =>
               /\ last'.st = "ok" /\ last'.val = TrueV
               /\ heap' = heap
          /\ /\ ~cur.flags.accessor
             /\ ~cur.flags.writable
             /\ ~cur.flags.configurable
             /\ SameAttributes(cur, last'.dp)
             /\ last'.dp.setValue
             /\ last'.v # cur.value
             => /\ Failed(last')
                /\ heap' = heap]_vars

\* A value-only request with the current value has been accepted on a
\* property that is read-only and non-configurable (it is enumerable, so
\* it is not this call that created it).
C11_SameValueAccepted ==
  /\ last.op = "defineOwnProperty"
  /\ last.val = TrueV
  /\ last.dp.setValue
  /\ ~last.dp.setEnumerable /\ ~last.dp.setWritable /\ ~last.dp.setConfigurable
  /\ HasOwn(heap, last.self, last.name)
  /\ OwnProp(heap, last.self, last.name).flags.enumerable
  /\ ~OwnProp(heap, last.self, last.name).flags.writable
  /\ ~OwnProp(heap, last.self, last.name).flags.configurable
  /\ ~OwnProp(heap, last.self, last.name).flags.accessor
  /\ OwnProp(heap, last.self, last.name).value = last.v

(***************************************************************************)
(* What setParent refuses.                                                 *)
(***************************************************************************)
\* Is o the object n or an object of n's parent chain?
OnChain(n, o) ==
  n # NullObj /\ \E k \in 0..Len(heap) : Ancestor(n, k) = o

\* C12: setParent(O, N) with N other than O's parent raises TypeError and
\* leaves every parent as it was when O is not extensible or N is O or has
\* O on its chain; with N the current parent it succeeds and changes
\* nothing, also when O is not extensible.
C12_SetParentRefusals ==
  [][last'.op = "setParent" =>
       IF last'.parent = heap[last'.self].parent
       THEN last'.st = "ok" /\ heap' = heap
       ELSE ~isExtensible(heap, last'.self)
              \/ OnChain(last'.parent, last'.self)
            => /\ last'.st = "exc"
               /\ last'.err = "TypeError"
               /\ heap' = heap]_vars

\* setParent has succeeded on an object that is not extensible: it was
\* given the parent the object already had.
C12_SameParentAccepted ==
  /\ last.op = "setParent"
  /\ last.st = "ok"
  /\ ~isExtensible(heap, last.self)
  /\ last.parent # NullObj
  /\ heap[last.self].parent = last.parent

(***************************************************************************)
(* SpecInherit: a chain of three plain objects, 3 -> 2 -> 1, each of which *)
(* may hold the name a as a data property or as an accessor; the name is   *)
(* read, written and deleted through every one of them.                    *)
(***************************************************************************)
InheritRequests ==
  {[dp |-> getDefaultNewPropertyFlags, v |-> V1],
   [dp |-> getDefaultNewPropertyFlags, v |-> V2],
   [dp |-> [getDefaultNewPropertyFlags EXCEPT !.configurable = FALSE],
    v |-> V1],
   [dp |-> DefinePropertyFlags(TRUE, TRUE, FALSE, FALSE, TRUE, TRUE, TRUE,
                               TRUE, FALSE),
    v |-> PropertyAccessor("g1", "s1")]}

InitInherit ==
  /\ heap = <<NewObject(NullObj), NewObject(1), NewObject(2)>>
  /\ forInCache = NoCache
  /\ nextObjectID = 0
  /\ last = NoCall

NextInherit ==
  \/ \E self \in ObjIds, req \in InheritRequests :
       DefineOwnProperty(self, AName, req.dp, req.v, NoOpFlags)
  \/ \E self \in ObjIds, v \in Vals : PutNamed(self, AName, v, NoOpFlags)
  \/ \E self \in ObjIds : GetNamed(self, AName)
  \/ \E self \in ObjIds, opFlags \in ThrowFlags :
       DeleteNamed(self, AName, opFlags)
  \/ Return

SpecInherit == InitInherit /\ [][NextInherit]_vars

\* The name is not the object's own, and the first object of its prototype
\* chain that holds it holds it as a data property.
InheritsData(h, o, name) ==
  /\ ~HasOwn(h, o, name)
  /\ Holder(h, o, name) # NullObj
  /\ ~OwnProp(h, Holder(h, o, name), name).flags.accessor

InheritedValue(h, o, name) == OwnProp(h, Holder(h, o, name), name).value

\* getNamed returns the inherited value.
ReadsInherited(h, o, name) ==
  \E r \in {getNamed_RJS(h, o, name, NoOpFlags)} :
    r.st = "ok" /\ r.val = InheritedValue(h, o, name) /\ r.h = h

\* C13: when P is not O's own and a prototype holds it as a data property,
\* getNamed(O, P) returns the prototype's value, deleteNamed(O, P) returns
\* true and changes neither O nor a prototype, and getNamed(O, P) returns
\* the inherited value afterwards as well.
C13_DeleteIsOwnOnly ==
  [][/\ last'.op = "getNamed"
        /\ InheritsData(heap, last'.self, last'.name)
        => /\ last'.st = "ok"
           /\ last'.val = InheritedValue(heap, last'.self, last'.name)
           /\ heap' = heap
     /\ last'.op = "deleteNamed"
        /\ InheritsData(heap, last'.self, last'.name)
        => /\ ReadsInherited(heap, last'.self, last'.name)
           /\ last'.st = "ok" /\ last'.val = TrueV
           /\ heap' = heap
           /\ ReadsInherited(heap', last'.self, last'.name)]_vars

\* deleteNamed has returned true on an object that never had a property
\* deleted and that inherits the name from the far end of its chain.
C13_DeletedInherited ==
  /\ last.op = "deleteNamed"
  /\ last.val = TrueV
  /\ ~heap[last.self].clazz.dict
  /\ InheritsData(heap, last.self, last.name)
  /\ Holder(heap, last.self, last.name) # heap[last.self].parent
  /\ InheritedValue(heap, last.self, last.name) = V2

(***************************************************************************)
(* SpecArray: an array (an ArrayImpl with the length property JSArray      *)
(* gives it) under a plain prototype.  Elements are written through        *)
(* putComputed beyond and below the length, the length is written, made    *)
(* read-only, and elements are deleted.                                    *)
(***************************************************************************)
Arr == 2

\* JSArray::create: indexed storage, and length = 0 served by the internal
\* setter.
NewArray(parent) ==
  addOwnPropertyImpl(<<[NewIndexedObject(parent) EXCEPT !.isArray = TRUE]>>,
                     1, LengthName,
                     [PropertyFlags(FALSE, TRUE, FALSE) EXCEPT
                        !.internalSetter = TRUE],
                     NumVal(0))[1]

ArrayKeys == {NumKey(i) : i \in 0..(MaxIndex - 1)} \cup {StrKey(numberToString(MaxIndex - 1))}

ReadOnlyRequest == [NoDp EXCEPT !.setWritable = TRUE]

InitArray ==
  /\ heap = <<NewObject(NullObj), NewArray(Proto)>>
  /\ forInCache = NoCache
  /\ nextObjectID = 0
  /\ last = NoCall

NextArray ==
  \/ \E key \in ArrayKeys, v \in Vals, opFlags \in ThrowFlags :
       PutComputed(Arr, key, v, opFlags)
  \/ \E n \in 0..MaxIndex, opFlags \in ThrowFlags :
       PutNamed(Arr, LengthName, NumVal(n), opFlags)
  \/ DefineOwnProperty(Arr, LengthName, ReadOnlyRequest, Undefined, NoOpFlags)
  \/ \E i \in 0..(MaxIndex - 1) : DeleteComputed(Arr, NumKey(i), NoOpFlags)
  \/ \E req \in {[dp |-> getDefaultNewPropertyFlags, v |-> V1],
                 [dp |-> DefinePropertyFlags(TRUE, TRUE, FALSE, FALSE, TRUE,
                                             TRUE, TRUE, TRUE, FALSE),
                  v |-> PropertyAccessor("g1", "s1")]} :
       DefineOwnComputed(Proto, NumKey(0), req.dp, req.v, NoOpFlags)
  \/ DeleteComputed(Proto, NumKey(0), NoOpFlags)
  \/ PreventExtensions(Arr)
  \/ GetNamed(Arr, LengthName)
  \/ Return

SpecArray == InitArray /\ [][NextArray]_vars

\* No object of the chain of o holds the index i, as an element or by name.
NoPropertyOfIndex(h, o, i) ==
  /\ ~haveOwnIndexed(h, o, i)
  /\ Holder(h, o, numberToString(i)) = NullObj

\* putComputed(A, key, v) on an extensible array, key an index at or beyond
\* the length, with no property of that index.
PutBeyondLength ==
  /\ last'.op = "putComputed"
  /\ heap[last'.self].isArray
  /\ isExtensible(heap, last'.self)
  /\ TO_ARRAY_INDEX(last'.key) >= JSArray_getLength(heap, last'.self)
  /\ NoPropertyOfIndex(heap, last'.self, TO_ARRAY_INDEX(last'.key))

\* C14: putComputed(A, i, v) on an extensible array with i >= length and no
\* property i sets length to i + 1 through putNamed before it stores the
\* element: when that putNamed raises or returns false, its failure is the
\* result and no element is stored; otherwise the call succeeds, length reads
\* i + 1 and the element reads v.
C14_LengthBeforeElement ==
  [][PutBeyondLength =>
       \E cr \in {putNamed_RJS(heap, last'.self, LengthName,
                               NumVal(TO_ARRAY_INDEX(last'.key) + 1),
                               last'.opFlags)} :
         IF Failed(cr)
         THEN /\ last'.st = cr.st /\ last'.val = cr.val /\ last'.err = cr.err
              /\ heap'[last'.self].indexed = heap[last'.self].indexed
              /\ heap' = heap
              /\ ~OwnProp(heap, last'.self, LengthName).flags.writable
         ELSE /\ last'.st = "ok" /\ last'.val = TrueV
              /\ getNamed_RJS(heap', last'.self, LengthName, NoOpFlags).val
                   = NumVal(TO_ARRAY_INDEX(last'.key) + 1)
              /\ getComputed_RJS(heap', last'.self, last'.key).val = last'.v]_vars

\* An element was stored past a hole: the array was empty, and now its
\* length is one more than the index written.
C14_GrownPastHole ==
  /\ last.op = "putComputed"
  /\ last.self = Arr
  /\ last.val = TrueV
  /\ TO_ARRAY_INDEX(last.key) = MaxIndex - 1
  /\ JSArray_getLength(heap, Arr) = MaxIndex
  /\ \A i \in 0..(MaxIndex - 1) :
       haveOwnIndexed(heap, Arr, i) <=> i = MaxIndex - 1
  /\ getOwnIndexed(heap, Arr, MaxIndex - 1) = last.v

\* The length was read-only and the write beyond it was refused.
C14_RefusedByLength ==
  /\ last.op = "putComputed"
  /\ last.self = Arr
  /\ Failed(last)
  /\ isExtensible(heap, Arr)
  /\ ~OwnProp(heap, Arr, LengthName).flags.writable
  /\ TO_ARRAY_INDEX(last.key) >= JSArray_getLength(heap, Arr)

(***************************************************************************)
(* SpecHost: a host object under a plain prototype that holds the name a.  *)
(* The names a, b and p are tested, read, written, defined and deleted on  *)
(* the host object; only defineOwnProperty puts a name into its class.     *)
(***************************************************************************)
HasNamed(self, name) ==
  /\ Idle
  /\ \E r \in {hasNamed(heap, self, name)} :
       /\ heap' = r.h
       /\ last' = Outcome([NoCall EXCEPT !.op = "hasNamed", !.self = self,
                                         !.name = name], r)
  /\ UNCHANGED <<forInCache, nextObjectID>>

HostNames == {AName, BName, PName}

InitHost ==
  /\ heap = <<addOwnPropertyImpl(<<NewObject(NullObj)>>, 1, AName,
                                 defaultNewNamedPropertyFlags, V1)[1],
              NewHostObject(1, <<PName>>)>>
  /\ forInCache = NoCache
  /\ nextObjectID = 0
  /\ last = NoCall

NextHost ==
  \/ \E name \in HostNames : HasNamed(Receiver, name)
  \/ \E name \in HostNames : GetNamed(Receiver, name)
  \/ \E name \in HostNames, v \in Vals, opFlags \in ThrowFlags :
       PutNamed(Receiver, name, v, opFlags)
  \/ \E name \in {AName, PName}, req \in InheritRequests :
       DefineOwnProperty(Receiver, name, req.dp, req.v, NoOpFlags)
  \/ \E name \in HostNames : DeleteNamed(Receiver, name, NoOpFlags)
  \/ Return

SpecHost == InitHost /\ [][NextHost]_vars

HostCalls(calls) ==
  {i \in 1..Len(calls) : calls[i].kind \in {"hostGet", "hostSet"}}

\* A read, a test or a write of a name on a host object.
OnHostObject(kinds) ==
  /\ last'.op \in kinds
  /\ heap[last'.self].hostObject

\* C15: on a host object O, a name that is not in O's class is reported
\* present by hasNamed, read by getNamed through the host get callback and
\* written by putNamed through the host set callback, and the write adds
\* nothing to O's class; a name that is in O's class is served from the
\* class and no host callback runs.
C15_HostRouting ==
  [][OnHostObject({"hasNamed", "getNamed", "putNamed"}) =>
       IF ~HasOwn(heap, last'.self, last'.name)
       THEN /\ last'.st = "ok"
            /\ heap' = heap
            /\ last'.op = "hasNamed" => last'.val = TrueV /\ last'.calls = <<>>
            /\ last'.op = "getNamed" =>
                 /\ last'.calls = <<HostGetCall(last'.self, last'.name)>>
                 /\ last'.val = HostVal(last'.self, last'.name)
            /\ last'.op = "putNamed" =>
                 last'.calls = <<HostSetCall(last'.self, last'.name, last'.v)>>
       ELSE /\ HostCalls(last'.calls) = {}
            /\ heap'[last'.self].clazz = heap[last'.self].clazz
            /\ last'.op = "hasNamed" => last'.val = TrueV
            /\ last'.op = "getNamed"
               /\ ~OwnProp(heap, last'.self, last'.name).flags.accessor
               => last'.val = OwnProp(heap, last'.self, last'.name).value
            /\ last'.op = "putNamed"
               /\ ~OwnProp(heap, last'.self, last'.name).flags.accessor
               => OwnProp(heap', last'.self, last'.name).value = last'.v]_vars

\* putNamed reached the host for a name that had been in the class of the
\* host object and was deleted from it, and that the prototype holds as
\* well.
C15_PutReachedHost ==
  /\ last.op = "putNamed"
  /\ last.name = AName
  /\ heap[last.self].hostObject
  /\ heap[last.self].clazz.dict
  /\ ~HasOwn(heap, last.self, AName)
  /\ last.calls = <<HostSetCall(last.self, AName, last.v)>>

\* putNamed was served by the class of the host object.
C15_PutServedByClass ==
  /\ last.op = "putNamed"
  /\ heap[last.self].hostObject
  /\ HasOwn(heap, last.self, last.name)
  /\ last.val = TrueV
  /\ last.calls = <<>>
  /\ OwnProp(heap, last.self, last.name).value = last.v

(***************************************************************************)
(* SpecFast: a plain object and an object with indexed storage receive     *)
(* index-like names through every operation that can add or remove a       *)
(* property, and further objects are created from the classes they have    *)
(* reached.                                                                *)
(***************************************************************************)
\* JSObject::create(Runtime *, Handle<HiddenClass>): a plain object of that
\* class, with room for its properties.
createFromClass(h, clazz) ==
  Append(h, [NewObject(NullObj) EXCEPT
               !.clazz = clazz,
               !.slots = [i \in 1..HC_getNumProperties(clazz) |-> Undefined],
               !.fastIndexProperties = ~HC_getHasIndexLikeProperties(clazz)])

\* How many objects are created from the class of an existing one.
MaxCreated == 1

CreateFromClass(from) ==
  /\ Idle
  /\ Len(heap) <= MaxCreated
  /\ heap' = createFromClass(heap, heap[from].clazz)
  /\ last' = [NoCall EXCEPT !.op = "createFromClass", !.self = Len(heap) + 1,
                            !.parent = from]
  /\ UNCHANGED <<forInCache, nextObjectID>>

Zero == numberToString(0)

FastRequests ==
  {[dp |-> getDefaultNewPropertyFlags, v |-> V1],
   [dp |-> [getDefaultNewPropertyFlags EXCEPT !.writable = FALSE], v |-> V1]}

\* The object under test is a plain object or one with indexed storage.
InitFast ==
  /\ heap \in {<<NewObject(NullObj)>>, <<NewIndexedObject(NullObj)>>}
  /\ forInCache = NoCache
  /\ nextObjectID = 0
  /\ last = NoCall

NextFast ==
  \/ PutNamed(Proto, Zero, V1, NoOpFlags)
  \/ PutComputed(Proto, NumKey(0), V2, NoOpFlags)
  \/ \E req \in FastRequests :
       DefineOwnProperty(Proto, Zero, req.dp, req.v, NoOpFlags)
  \/ \E req \in FastRequests :
       DefineOwnComputed(Proto, NumKey(1), req.dp, req.v, NoOpFlags)
  \/ DefineNewOwnProperty(Proto, numberToString(1),
                          defaultNewNamedPropertyFlags, V1)
  \/ DeleteNamed(Proto, Zero, NoOpFlags)
  \/ DeleteComputed(Proto, NumKey(1), NoOpFlags)
  \/ CreateFromClass(Proto)
  \/ Return

SpecFast == InitFast /\ [][NextFast]_vars

\* The object has an own named property whose name parses as an array index.
HasIndexLikeName(h, o) ==
  \E i \in 1..Len(h[o].clazz.props) :
    toArrayIndex(h[o].clazz.props[i].name) >= 0

\* C16: in every state the public operations reach, an object whose
\* fastIndexProperties flag is set has no own named property whose name
\* parses as a uint32 array index.
C16_FastIndexProperties ==
  \A o \in ObjIds : heap[o].fastIndexProperties => ~HasIndexLikeName(heap, o)

\* An object was created from a class that holds an index-like name, next
\* to an object with indexed storage that holds one and an element too.
C16_CreatedFromIndexLikeClass ==
  /\ last.op = "createFromClass"
  /\ HasIndexLikeName(heap, last.self)
  /\ ~heap[last.self].fastIndexProperties
  /\ HasIndexLikeName(heap, Proto)
  /\ haveOwnIndexed(heap, Proto, 0)

(***************************************************************************)
(* SpecNames: the objects of SpecIndexed, with index-like names written    *)
(* through the named operations as well as the computed ones, and names    *)
(* of the host object put into its class.                                  *)
(***************************************************************************)
NextNames ==
  \/ \E i \in Indexes : PutComputed(Indexed, NumKey(i), V1, NoOpFlags)
  \/ PutNamed(Indexed, Zero, V2, NoOpFlags)
  \/ \E i \in Indexes, dp \in IndexedRequests :
       DefineOwnComputed(Indexed, NumKey(i), dp, V1, NoOpFlags)
  \/ \E i \in Indexes : DeleteComputed(Indexed, NumKey(i), NoOpFlags)
  \/ \E name \in {PName, Zero}, dp \in IndexedRequests :
       DefineOwnProperty(Host, name, dp, V1, NoOpFlags)
  \/ DeleteNamed(Host, PName, NoOpFlags)
  \/ \E o \in {Indexed, Host}, onlyEnumerable \in BOOLEAN :
       GetOwnPropertyNames(o, onlyEnumerable)
  \/ Return

SpecNames == InitIndexed /\ [][NextNames]_vars

\* The name an entry of the result spells.
Spelling(entry) == IF entry.k = "num" THEN numberToString(entry.n) ELSE entry.s

NoDuplicates(q) ==
  \A i, j \in 1..Len(q) : i # j => Spelling(q[i]) # Spelling(q[j])

\* C17: no name appears twice in the result of getOwnPropertyNames: an
\* element i and a named property spelled "i" do not both contribute an
\* entry, and a name the host reports that the class holds is listed once.
C17_NoDuplicateNames ==
  [][last'.op = "getOwnPropertyNames" /\ last'.st = "ok"
       => NoDuplicates(last'.val.items)]_vars

\* The same, for objects that do not hold an element i and a named property
\* spelled "i" at once.
C17_NoDuplicatesWithoutClash ==
  [][/\ last'.op = "getOwnPropertyNames" /\ last'.st = "ok"
     /\ \A i \in Indexes :
          ~(haveOwnIndexed(heap, last'.self, i)
              /\ HasOwn(heap, last'.self, numberToString(i)))
     => NoDuplicates(last'.val.items)]_vars

\* The host object holds in its class a name its host reports too, and the
\* name is listed.
C17_HostNameInClassListed ==
  /\ last.op = "getOwnPropertyNames"
  /\ last.self = Host
  /\ HasOwn(heap, Host, PName)
  /\ \E i \in 1..Len(last.val.items) : last.val.items[i] = StrKey(PName)

\* An element and a named property of the same index were both listed.
C17_ListedTwice ==
  /\ last.op = "getOwnPropertyNames"
  /\ last.self = Indexed
  /\ last.val = ListVal(<<NumKey(0), NumKey(0)>>)

(***************************************************************************)
(* The size limit of the for-in cache, checked in SpecForIn.               *)
(***************************************************************************)
\* The object and every object above it may be cached.
RECURSIVE AllCacheable(_, _)
AllCacheable(h, o) ==
  o = NullObj \/ (shouldCacheForIn(h, o) /\ AllCacheable(h, h[o].parent))

\* getForInPropertyNames has built a fresh list.
FreshBuild == last'.op = "getForInPropertyNames" /\ ~last'.only

\* The fresh list is the cache of the receiver's class after the call.
Installed ==
  /\ heap[last'.self].clazz \in DOMAIN forInCache'
  /\ forInCache'[heap[last'.self].clazz]
       = ChainClasses(heap, last'.self) \o <<NullEntry>> \o last'.val.items

\* The entries of the array that was built: the classes of the prototypes
\* and the null when the chain may be cached, and the names.
TotalEntries ==
  (IF AllCacheable(heap, last'.self)
   THEN Len(ChainClasses(heap, last'.self)) + 1 ELSE 0)
    + Len(last'.val.items)

OwnCount == Len(heap[last'.self].clazz.props)

OrderNames == {AName, BName, Zero}

NextOrder ==
  \/ \E name \in OrderNames : PutNamed(Receiver, name, V1, NoOpFlags)
  \/ \E name \in {AName, Zero} : DeleteNamed(Receiver, name, NoOpFlags)
  \/ \E req \in InheritRequests :
       DefineOwnProperty(Proto, AName, req.dp, req.v, NoOpFlags)
  \/ PreventExtensions(Receiver)
  \/ \E onlyEnumerable \in BOOLEAN :
       GetOwnPropertyNames(Receiver, onlyEnumerable)
  \/ Return

SpecOrder == InitInherit /\ [][NextOrder]_vars

\* After the call, getOwnPropertyNames(O) ends with the name that was put.
EndsWithName ==
  \A onlyEnumerable \in BOOLEAN :
    \E r \in {getOwnPropertyNames(heap', last'.self, onlyEnumerable)} :
      /\ r.st = "ok"
      /\ Len(r.val.items) > 0
      /\ Spelling(r.val.items[Len(r.val.items)]) = last'.name

\* C19 as stated: after putNamed(O, P, v) with default flags on an
\* extensible plain object, the sequence getOwnPropertyNames(O) returns
\* ends with P.
C19_PutNameIsLast == [][DefaultPut => EndsWithName]_vars

\* C19, amended: when P is not index-like, is not an own property of O and
\* resolves on the prototype chain to nothing or to a writable data
\* property, the sequence getOwnPropertyNames(O) returns after the put ends
\* with P.
C19_NewNameIsLast ==
  [][/\ DefaultPut
     /\ toArrayIndex(last'.name) < 0
     /\ isPropertyNamePrimitive(last'.name)
     /\ ~HasOwn(heap, last'.self, last'.name)
     /\ ResolvesToWritableData(heap, last'.self, last'.name)
     => last'.val = TrueV /\ EndsWithName]_vars

\* The name b was added to an object that holds a, and "0" added after a.
C19_AddedAfterIndexLike ==
  /\ last.op = "putNamed"
  /\ last.name = BName
  /\ last.val = TrueV
  /\ Len(heap[last.self].clazz.props) = 3
  /\ heap[last.self].clazz.props[1].name = AName
  /\ heap[last.self].clazz.props[2].name = Zero
  /\ heap[last.self].clazz.props[3].name = BName

(***************************************************************************)
(* SpecID: object IDs.  The runtime's counter is CounterWidth bits wide    *)
(* and starts anywhere; the objectID field of a cell is FieldWidth bits    *)
(* wide and holds the counter's low bits.                                  *)
(***************************************************************************)
CounterWidth == 3
FieldWidth == 2

\* A variant without the test for zero.
getObjectIDUnchecked(h, self, counter) ==
  IF h[self].objectID # 0
  THEN [h |-> h, counter |-> counter, val |-> h[self].objectID]
  ELSE LET next == (counter + 1) % (2 ^ CounterWidth)
           assigned == next % (2 ^ FieldWidth)
       IN [h |-> [h EXCEPT ![self].objectID = assigned], counter |-> next,
           val |-> assigned]

\* JSObject::getObjectID.  Runtime::generateNextObjectID steps the counter
\* and returns it; the assignment to the bit field keeps its low bits; the
\* decrement of a zero field wraps within the field.
getObjectID(h, self, counter) ==
  IF h[self].objectID # 0
  THEN [h |-> h, counter |-> counter, val |-> h[self].objectID]
  ELSE LET next == (counter + 1) % (2 ^ CounterWidth)
           assigned == next % (2 ^ FieldWidth)
           objectID == IF assigned = 0 THEN (assigned - 1) % (2 ^ FieldWidth)
                       ELSE assigned
       IN [h |-> [h EXCEPT ![self].objectID = objectID], counter |-> next,
           val |-> objectID]

\* The call records in `only` whether the object had no ID yet.
GetObjectID(self) ==
  /\ Idle
  /\ \E r \in {getObjectID(heap, self, nextObjectID)} :
       /\ heap' = r.h
       /\ nextObjectID' = r.counter
       /\ last' = [NoCall EXCEPT !.op = "getObjectID", !.self = self,
                                 !.only = (heap[self].objectID = 0),
                                 !.val = NumVal(r.val)]
  /\ UNCHANGED forInCache

InitID ==
  /\ heap = <<NewObject(NullObj), NewObject(NullObj)>>
  /\ forInCache = NoCache
  /\ nextObjectID \in 0..(2 ^ CounterWidth - 1)
  /\ last = NoCall

NextID ==
  \/ \E self \in ObjIds : GetObjectID(self)
  \/ Create(NullObj)
  \/ Return

SpecID == InitID /\ [][NextID]_vars

\* C20: getObjectID(O) never returns 0, whatever the runtime counter yields
\* (a value whose low bits are 0 is replaced by the value one below zero in
\* the field's width); it returns the ID the object holds from then on, the
\* same on every later call; and an object's ID is 0 from its creation
\* until its first getObjectID call and at no time after it.
C20_ObjectID ==
  /\ \A o \in ObjIds : heap[o].objectID = 0
  /\ [][/\ last'.op = "create" => heap'[last'.self].objectID = 0
        /\ last'.op = "getObjectID" =>
             /\ last'.val # NumVal(0)
             /\ last'.val = NumVal(heap'[last'.self].objectID)
             /\ heap[last'.self].objectID # 0 =>
                  heap'[last'.self].objectID = heap[last'.self].objectID
             /\ heap[last'.self].objectID = 0
                /\ nextObjectID' % (2 ^ FieldWidth) = 0
                => last'.val = NumVal(2 ^ FieldWidth - 1)
        /\ \A o \in ObjIds :
             heap'[o].objectID # heap[o].objectID =>
               /\ last'.op = "getObjectID" /\ last'.self = o
               /\ heap[o].objectID = 0]_vars

\* A first call met the counter's wraparound to 0 and the object received
\* the largest value of the field.
C20_WrappedToZero ==
  /\ last.op = "getObjectID"
  /\ last.only
  /\ nextObjectID = 0
  /\ last.val = NumVal(2 ^ FieldWidth - 1)
  /\ heap[last.self].objectID = 2 ^ FieldWidth - 1
  /\ \E o \in ObjIds : o # last.self /\ heap[o].objectID # 0

(***************************************************************************)
(* SpecMustExist: the chain of SpecInherit.  Object 2 is read and written  *)
(* with and without mustExist while its prototype holds the name a as      *)
(* writable or read-only data, as an accessor with or without a setter, or *)
(* not at all.                                                             *)
(***************************************************************************)
GetNamedWith(self, name, opFlags) ==
  /\ Idle
  /\ \E r \in {getNamed_RJS(heap, self, name, opFlags)} :
       /\ heap' = r.h
       /\ last' = Outcome([NoCall EXCEPT !.op = "getNamed", !.self = self,
                                         !.name = name, !.opFlags = opFlags],
                          r)
  /\ UNCHANGED <<forInCache, nextObjectID>>

MustExistFlags == {PropOpFlags(t, m, FALSE) : t \in BOOLEAN, m \in BOOLEAN}

AccessorRequest(g, s) ==
  [dp |-> DefinePropertyFlags(TRUE, TRUE, FALSE, FALSE, TRUE, TRUE, TRUE, TRUE,
                              FALSE),
   v |-> PropertyAccessor(g, s)]

ProtoRequests ==
  {[dp |-> getDefaultNewPropertyFlags, v |-> V1],
   [dp |-> [getDefaultNewPropertyFlags EXCEPT !.writable = FALSE], v |-> V1],
   AccessorRequest("g1", "s1"), AccessorRequest(NullFn, NullFn)}

NextMustExist ==
  \/ \E req \in ProtoRequests :
       DefineOwnProperty(Proto, AName, req.dp, req.v, NoOpFlags)
  \/ \E self \in {Proto, Receiver} : DeleteNamed(self, AName, NoOpFlags)
  \/ \E opFlags \in MustExistFlags : PutNamed(Receiver, AName, V2, opFlags)
  \/ \E opFlags \in MustExistFlags : GetNamedWith(Receiver, AName, opFlags)
  \/ Return

SpecMustExist == InitInherit /\ [][NextMustExist]_vars

\* getNamed on a name no object of the chain holds: ReferenceError with
\* mustExist, undefined without.
GetOfAbsentName ==
  last'.op = "getNamed" /\ Holder(heap, last'.self, last'.name) = NullObj
    => /\ heap' = heap
       /\ IF last'.opFlags.mustExist
          THEN last'.st = "exc" /\ last'.err = "ReferenceError"
          ELSE last'.st = "ok" /\ last'.val = Undefined

RaisedReferenceError ==
  last'.st = "exc" /\ last'.err = "ReferenceError" /\ heap' = heap

\* C21 as stated: getNamed of an absent name raises ReferenceError with
\* mustExist and returns undefined without; putNamed with mustExist on a
\* name that is absent or present only on a prototype raises ReferenceError
\* and adds no own property.
C21_MustExist ==
  [][/\ GetOfAbsentName
     /\ last'.op = "putNamed" /\ last'.opFlags.mustExist
        /\ ~HasOwn(heap, last'.self, last'.name)
        => RaisedReferenceError]_vars

\* C21, amended: the same, the put being on a name that is absent or that
\* the nearest prototype holding it holds as a writable data property.
C21_MustExistWritable ==
  [][/\ GetOfAbsentName
     /\ last'.op = "putNamed" /\ last'.opFlags.mustExist
        /\ ~HasOwn(heap, last'.self, last'.name)
        /\ ResolvesToWritableData(heap, last'.self, last'.name)
        => RaisedReferenceError]_vars

\* A put with mustExist raised ReferenceError on a name the prototype holds
\* as a writable data property.
C21_InheritedNameRefused ==
  /\ last.op = "putNamed"
  /\ last.opFlags.mustExist
  /\ last.err = "ReferenceError"
  /\ ~HasOwn(heap, last.self, last.name)
  /\ Holder(heap, last.self, last.name) = heap[last.self].parent
  /\ OwnProp(heap, heap[last.self].parent, last.name).flags.writable

(***************************************************************************)
(* The extensibility flags, checked in Spec.                               *)
(***************************************************************************)
FlagsNested(h, o) ==
  /\ h[o].frozen => h[o].sealed
  /\ h[o].sealed => h[o].noExtend

FlagsKept(o) ==
  /\ heap[o].noExtend => heap'[o].noExtend
  /\ heap[o].sealed => heap'[o].sealed
  /\ heap[o].frozen => heap'[o].frozen

\* seal on a sealed object, freeze on a frozen one.
RepeatedSealOrFreeze ==
  \/ last'.op = "seal" /\ heap[last'.self].sealed
  \/ last'.op = "freeze" /\ heap[last'.self].frozen

\* C22: no operation clears noExtend, sealed or frozen; in every reachable
\* state frozen implies sealed and sealed implies noExtend; seal of a sealed
\* object and freeze of a frozen object change neither the flags nor the
\* hidden class.
C22_FlagsMonotoneNested ==
  /\ [](\A o \in ObjIds : FlagsNested(heap, o))
  /\ [][/\ \A o \in ObjIds : FlagsKept(o)
        /\ RepeatedSealOrFreeze => heap' = heap]_vars

\* seal was applied to a sealed object that had since received a
\* configurable property, and the property is configurable still.
C22_SealedAgain ==
  /\ last.op = "seal"
  /\ heap[last.self].sealed
  /\ ~heap[last.self].frozen
  /\ HasOwn(heap, last.self, CName)
  /\ OwnProp(heap, last.self, CName).flags.configurable

(***************************************************************************)
(* isSealed and isFrozen.  One object, plain or with indexed storage, that *)
(* holds at most the property p and a property or element 0, under every   *)
(* order of definitions, deletions, preventExtensions, seal and freeze.    *)
(***************************************************************************)
ScanRequests ==
  {[dp |-> [getDefaultNewPropertyFlags EXCEPT !.writable = w,
                                              !.configurable = c],
    v |-> V1] : w \in BOOLEAN, c \in BOOLEAN}
  \cup {[dp |-> [AccessorRequest("g1", NullFn).dp EXCEPT !.configurable = c],
         v |-> PropertyAccessor("g1", NullFn)] : c \in BOOLEAN}

NextScan ==
  \/ \E req \in ScanRequests :
       DefineOwnProperty(Proto, PName, req.dp, req.v, NoOpFlags)
  \/ DeleteNamed(Proto, PName, NoOpFlags)
  \/ PutComputed(Proto, NumKey(0), V1, NoOpFlags)
  \/ \E req \in ScanRequests, opFlags \in ThrowFlags :
       DefineOwnComputed(Proto, NumKey(0), req.dp, req.v, opFlags)
  \/ DeleteComputed(Proto, NumKey(0), NoOpFlags)
  \/ PreventExtensions(Proto)
  \/ Seal(Proto)
  \/ Freeze(Proto)
  \/ IsSealed(Proto)
  \/ IsFrozen(Proto)
  \/ Return

SpecScan == InitFast /\ [][NextScan]_vars

\* What the scan of isSealed looks for.
ScansSealed(h, o) ==
  /\ h[o].noExtend
  /\ AllNonConfigurable(h, o)
  /\ checkAllOwnIndexed(h, o, "NonConfigurable")

\* What the scan of isFrozen looks for.
ScansFrozen(h, o) ==
  /\ h[o].noExtend
  /\ \A p \in OwnProps(h, o) : ~p.flags.configurable /\ ~p.flags.writable
  /\ checkAllOwnIndexed(h, o, "ReadOnly")

SameFlags(o) ==
  /\ heap'[o].noExtend = heap[o].noExtend
  /\ heap'[o].sealed = heap[o].sealed
  /\ heap'[o].frozen = heap[o].frozen

IsSealedAnswer ==
  last'.op = "isSealed" =>
    LET o == last'.self
    IN /\ last'.st = "ok" /\ last'.val \in {TrueV, FalseV}
       /\ last'.val = TrueV <=> heap[o].sealed \/ ScansSealed(heap, o)
       /\ last'.val = TrueV /\ ~heap[o].sealed =>
            heap' = [heap EXCEPT ![o].sealed = TRUE]
       /\ last'.val = FalseV => SameFlags(o)
       /\ ~heap[o].noExtend => last'.val = FalseV

IsFrozenAnswer ==
  last'.op = "isFrozen" =>
    LET o == last'.self
    IN /\ last'.st = "ok" /\ last'.val \in {TrueV, FalseV}
       /\ last'.val = TrueV <=> heap[o].frozen \/ ScansFrozen(heap, o)
       /\ last'.val = TrueV /\ ~heap[o].frozen =>
            heap' = [heap EXCEPT ![o].frozen = TRUE, ![o].sealed = TRUE]
       /\ last'.val = FalseV => SameFlags(o)
       /\ ~heap[o].noExtend => last'.val = FalseV

\* C23: isSealed answers true exactly when the sealed flag is set or the
\* object is not extensible, every named property is non-configurable and
\* checkAllOwnIndexed(NonConfigurable) holds; isFrozen likewise with the
\* frozen flag, properties that are all read-only, and
\* checkAllOwnIndexed(ReadOnly); a true answer found by the scan sets sealed
\* (frozen and sealed), a false answer changes no flag, and both answer
\* false on an extensible object.
C23_IsSealedIsFrozen == [][IsSealedAnswer /\ IsFrozenAnswer]_vars

\* isFrozen has answered true for an object that holds one property, and
\* the object carries the frozen and the sealed flag.
C23_FrozenByScan ==
  /\ last.op = "isFrozen"
  /\ last.val = TrueV
  /\ HasOwn(heap, last.self, PName)
  /\ heap[last.self].frozen
  /\ heap[last.self].sealed
  /\ heap[last.self].clazz = HC_makeAllReadOnly(heap[last.self].clazz)
  /\ Len(heap[last.self].clazz.props) = 1

(***************************************************************************)
(* Computed keys whose resolution raises.  The receiver (object 2) and its *)
(* prototype (object 1) are read, written and asked with keys that are     *)
(* strings, strings that cannot be interned, and objects whose conversion  *)
(* raises or yields one of these.                                          *)
(***************************************************************************)
\* The outcomes of HostObject::get called through a bad cast: the assertion
\* of the cast stops the program, or the call goes through whatever lies
\* where a HostObject keeps its callbacks: it returns some value without
\* reaching a host object, or lands in the callbacks of a host object.
BadCastOutcomes(r, junk) ==
  {[r EXCEPT !.st = "abort", !.val = Undefined, !.err = "assert"],
   [r EXCEPT !.val = junk]}
  \cup {[r EXCEPT !.val = HostVal(o, name), !.calls = <<HostGetCall(o, name)>>] :
          o \in {x \in 1..Len(r.h) : r.h[x].hostObject}, name \in HostNames}

GetComputed(self, key) ==
  /\ Idle
  /\ \E r \in {getComputed_RJS(heap, self, key)}, junk \in Vals \cup {Undefined} :
       /\ heap' = r.h
       /\ \E res \in IF r.val = BadCast THEN BadCastOutcomes(r, junk)
                      ELSE IF r.val = Indeterminate
                      THEN {[r EXCEPT !.val = junk]}
                      ELSE {r} :
            last' = Outcome([NoCall EXCEPT !.op = "getComputed",
                                           !.self = self, !.key = key], res)
  /\ UNCHANGED <<forInCache, nextObjectID>>

ComputedKeys ==
  {StrKey(AName), FailingKey(AName), ObjKey(StrKey(AName), FALSE),
   ObjKey(StrKey(AName), TRUE), ObjKey(FailingKey(AName), FALSE)}

NextKeys ==
  \/ \E req \in ProtoRequests :
       DefineOwnProperty(Proto, AName, req.dp, req.v, NoOpFlags)
  \/ \E self \in {Proto, Receiver} : DeleteNamed(self, AName, NoOpFlags)
  \/ \E key \in ComputedKeys, opFlags \in ThrowFlags :
       PutComputed(Receiver, key, V2, opFlags)
  \/ \E key \in ComputedKeys : GetComputed(Receiver, key)
  \/ \E key \in ComputedKeys : HasComputed(Receiver, key)
  \/ Return

SpecKeys == InitInherit /\ [][NextKeys]_vars

KeyConversionRaises(key) == key.k = "obj" /\ key.raises

InterningRaises(key) ==
  /\ ~KeyConversionRaises(key)
  /\ LAZY_TO_IDENTIFIER_raises(toPropertyKeyIfObject(key).key)

ComputedAccess ==
  last'.op \in {"getComputed", "putComputed", "hasComputed"}

\* C24: when the key conversion, the interning of the key or the lookup of
\* the own descriptor at a step of the prototype chain raises, getComputed,
\* putComputed and hasComputed end with EXCEPTION, and nothing has been read
\* or written through the owner and descriptor found so far.
C24_ExceptionSurfaced ==
  [][ComputedAccess
       /\ (KeyConversionRaises(last'.key) \/ InterningRaises(last'.key))
     => last'.st = "exc" /\ heap' = heap /\ last'.calls = <<>>]_vars

\* What holds: an exception of the key conversion ends the three operations
\* with EXCEPTION and the heap as it was.
C24_ConversionSurfaced ==
  [][ComputedAccess /\ KeyConversionRaises(last'.key)
     => last'.st = "exc" /\ heap' = heap /\ last'.calls = <<>>]_vars

\* hasComputed has answered true for a key whose interning raised.
C24_AnsweredAfterRaise ==
  /\ last.op = "hasComputed"
  /\ InterningRaises(last.key)
  /\ last.st = "ok"
  /\ last.val = TrueV

(***************************************************************************)
(* The accessor flag and the slot, checked in SpecDefine.                  *)
(***************************************************************************)
HoldsAccessorCell(p) == p.value.k = "acc"

Defined ==
  /\ last'.op = "defineOwnProperty"
  /\ last'.st = "ok"
  /\ last'.val = TrueV

MentionsData(dp) == (dp.setValue \/ dp.setWritable) /\ ~dpIsAccessor(dp)

\* C25: after a successful defineOwnProperty the accessor flag of the
\* property is set iff its slot holds a PropertyAccessor cell, and accessor
\* and writable are never both set; a configurable accessor property
\* redefined with a data descriptor (value or writable mentioned) becomes a
\* data property holding a JS value, writable only if writable was
\* mentioned; a data property redefined as an accessor is not writable.
C25_AccessorFlagAgrees ==
  [][Defined =>
       LET o == last'.self
           name == last'.name
           dp == last'.dp
           new == OwnProp(heap', o, name)
           cur == OwnProp(heap, o, name)
       IN /\ HasOwn(heap', o, name)
          /\ new.flags.accessor <=> HoldsAccessorCell(new)
          /\ ~(new.flags.accessor /\ new.flags.writable)
          /\ (/\ HasOwn(heap, o, name)
              /\ cur.flags.accessor
              /\ cur.flags.configurable
              /\ MentionsData(dp))
             => /\ ~new.flags.accessor
                /\ ~HoldsAccessorCell(new)
                /\ new.flags.writable => dp.setWritable
          /\ (/\ HasOwn(heap, o, name)
              /\ ~cur.flags.accessor
              /\ dpIsAccessor(dp))
             => new.flags.accessor /\ ~new.flags.writable]_vars

\* A property that is an accessor and writable at once.
C25_WritableAccessor ==
  /\ HasOwn(heap, 1, PName)
  /\ OwnProp(heap, 1, PName).flags.accessor
  /\ OwnProp(heap, 1, PName).flags.writable
  /\ HoldsAccessorCell(OwnProp(heap, 1, PName))

(***************************************************************************)
(* Refused definitions, checked in SpecScan.                               *)
(***************************************************************************)
DefineRefused ==
  /\ last'.op \in {"defineOwnProperty", "defineOwnComputed"}
  /\ Failed(last')

SameObject(o) ==
  /\ heap'[o].clazz = heap[o].clazz
  /\ heap'[o].slots = heap[o].slots
  /\ heap'[o].indexed = heap[o].indexed
  /\ SameFlags(o)

\* C26: when defineOwnProperty or defineOwnComputed returns false or raises,
\* the own properties of the object (names, flags, slot values, elements),
\* its extensibility flags and its hidden class are as before the call.
C26_RefusedChangesNothing ==
  [][DefineRefused => SameObject(last'.self)]_vars

\* A refused defineOwnComputed after which the element it was to redefine
\* is gone.
C26_ElementLost ==
  /\ last.op = "defineOwnComputed"
  /\ Failed(last)
  /\ heap[last.self].indexedStorage
  /\ heap[last.self].noExtend
  /\ ~heap[last.self].sealed
  /\ ~ArrayImpl_haveOwnIndexed(heap, last.self, 0)
  /\ ~HasOwn(heap, last.self, Zero)

(***************************************************************************)
(* Redefinition of an existing element, checked in SpecScan.               *)
(***************************************************************************)
\* The call is a defineOwnComputed of index i on an object that holds the
\* element i and no named property of that spelling.
RedefinesElement(i) ==
  /\ last'.op = "defineOwnComputed"
  /\ last'.key = NumKey(i)
  /\ heap[last'.self].indexedStorage
  /\ ArrayImpl_haveOwnIndexed(heap, last'.self, i)
  /\ ~HasOwn(heap, last'.self, numberToString(i))

\* The flags the update rule gives the redefined element.
ResultingFlags(i) ==
  checkPropertyUpdate(
    ArrayImpl_getOwnIndexedPropertyFlags(heap, last'.self, i).flags,
    last'.dp, ArrayImpl_getOwnIndexed(heap, last'.self, i), last'.v,
    last'.opFlags)

UpdateValid(i) == ResultingFlags(i).status \in {"done", "needSet"}

StillIndexable(i) ==
  ResultingFlags(i).flags =
    ArrayImpl_getOwnIndexedPropertyFlags(heap, last'.self, i).flags

BecameNamed(i) ==
  LET o == last'.self
      new == OwnProp(heap', o, numberToString(i))
      res == ResultingFlags(i).flags
  IN /\ ~ArrayImpl_haveOwnIndexed(heap', o, i)
     /\ HasOwn(heap', o, numberToString(i))
     /\ new.flags.enumerable = res.enumerable
     /\ new.flags.writable = res.writable
     /\ new.flags.configurable = res.configurable
     /\ new.value = IF last'.dp.setValue \/ dpIsAccessor(last'.dp)
                    THEN last'.v
                    ELSE ArrayImpl_getOwnIndexed(heap, o, i)
     /\ ~heap'[o].fastIndexProperties

StayedIndexed(i) ==
  LET o == last'.self
  IN /\ ~HasOwn(heap', o, numberToString(i))
     /\ heap'[o].clazz = heap[o].clazz
     /\ ArrayImpl_getOwnIndexed(heap', o, i) =
          IF last'.dp.setValue THEN last'.v
          ELSE ArrayImpl_getOwnIndexed(heap, o, i)

\* C27: a defineOwnComputed of an existing element whose resulting flags
\* cannot be held in indexed storage leaves the element absent and a named
\* property of the same spelling with the resulting flags and the previous
\* (or the supplied) value, and clears fastIndexProperties; when the
\* resulting flags are still indexable the element stays in indexed
\* storage and is written there.
C27_ElementConverted ==
  [][\A i \in 0..(MaxIndex - 1) :
       RedefinesElement(i) /\ UpdateValid(i) =>
         IF StillIndexable(i) THEN StayedIndexed(i) ELSE BecameNamed(i)]_vars

\* What holds: the same on an extensible object.
C27_ElementConvertedExtensible ==
  [][\A i \in 0..(MaxIndex - 1) :
       RedefinesElement(i) /\ UpdateValid(i) /\ ~heap[last'.self].noExtend =>
         IF StillIndexable(i) THEN StayedIndexed(i) ELSE BecameNamed(i)]_vars

\* An element of an extensible object was made read-only and is a named
\* property now.
C27_NamedAfterConversion ==
  /\ last.op = "defineOwnComputed"
  /\ last.val = TrueV
  /\ heap[last.self].indexedStorage
  /\ ~heap[last.self].noExtend
  /\ ~ArrayImpl_haveOwnIndexed(heap, last.self, 0)
  /\ HasOwn(heap, last.self, Zero)
  /\ ~OwnProp(heap, last.self, Zero).flags.writable
  /\ ~heap[last.self].fastIndexProperties

(***************************************************************************)
(* New index-like names on an array.  The array of InitArray receives      *)
(* definitions of its first and its last index with indexable and other    *)
(* descriptors; its length is shrunk and made read-only, elements and      *)
(* properties are deleted.                                                 *)
(***************************************************************************)
GrowIndexes == {0, MaxIndex - 1}

GrowRequests ==
  {[dp |-> getDefaultNewPropertyFlags, v |-> V1],
   [dp |-> [getDefaultNewPropertyFlags EXCEPT !.enumerable = FALSE], v |-> V1],
   [dp |-> [NoDp EXCEPT !.setValue = TRUE], v |-> V2],
   [dp |-> [getDefaultNewPropertyFlags EXCEPT !.setValue = FALSE],
    v |-> Undefined],
   AccessorRequest("g1", NullFn)}

NextGrow ==
  \/ \E i \in GrowIndexes, req \in GrowRequests, opFlags \in ThrowFlags :
       DefineOwnComputed(Arr, NumKey(i), req.dp, req.v, opFlags)
  \/ \E n \in {0, 1} : PutNamed(Arr, LengthName, NumVal(n), NoOpFlags)
  \/ DefineOwnProperty(Arr, LengthName, ReadOnlyRequest, Undefined, NoOpFlags)
  \/ \E i \in GrowIndexes : DeleteComputed(Arr, NumKey(i), NoOpFlags)
  \/ Return

SpecGrow == InitArray /\ [][NextGrow]_vars

\* defineOwnComputed of an index the extensible array holds neither as an
\* element nor by name, at or beyond its length.
DefinesBeyondLength(i) ==
  /\ last'.op = "defineOwnComputed"
  /\ last'.key = NumKey(i)
  /\ heap[last'.self].isArray
  /\ isExtensible(heap, last'.self)
  /\ ~ArrayImpl_haveOwnIndexed(heap, last'.self, i)
  /\ ~HasOwn(heap, last'.self, numberToString(i))
  /\ i >= JSArray_getLength(heap, last'.self)

RequestsIndexable(dp) ==
  /\ dp.setEnumerable /\ dp.enumerable
  /\ dp.setWritable /\ dp.writable
  /\ dp.setConfigurable /\ dp.configurable
  /\ ~dp.setGetter /\ ~dp.setSetter

RefusedAsAsked ==
  IF last'.opFlags.throwOnError
  THEN last'.st = "exc" /\ last'.err = "TypeError"
  ELSE last'.st = "ok" /\ last'.val = FalseV

GrownBy(i) ==
  LET o == last'.self
  IN /\ JSArray_getLength(heap', o) = i + 1
     /\ IF RequestsIndexable(last'.dp)
        THEN /\ ArrayImpl_haveOwnIndexed(heap', o, i)
             /\ ~HasOwn(heap', o, numberToString(i))
        ELSE /\ HasOwn(heap', o, numberToString(i))
             /\ ~ArrayImpl_haveOwnIndexed(heap', o, i)
             /\ ~heap'[o].fastIndexProperties

\* C28: defineOwnComputed of a new index i >= length on an extensible array
\* is refused (TypeError under throwOnError, else false) with the array
\* unchanged when length is not writable; otherwise a successful call
\* leaves length = i + 1 and i as an element when the request is
\* enumerable, writable, configurable data, as a named property with
\* fastIndexProperties cleared when it is not; a failed call never raises
\* the length.
C28_NewIndexBeyondLength ==
  [][\A i \in 0..(MaxIndex - 1) :
       DefinesBeyondLength(i) =>
         IF ~OwnProp(heap, last'.self, LengthName).flags.writable
         THEN RefusedAsAsked /\ heap' = heap
         ELSE /\ last'.st = "ok" /\ last'.val = TrueV => GrownBy(i)
              /\ Failed(last') =>
                   JSArray_getLength(heap', last'.self) =
                     JSArray_getLength(heap, last'.self)]_vars

\* The index MaxIndex - 1 was defined beyond the length as an accessor: it
\* is a named property and the length is MaxIndex.
C28_NamedBeyondLength ==
  /\ last.op = "defineOwnComputed"
  /\ last.val = TrueV
  /\ dpIsAccessor(last.dp)
  /\ HasOwn(heap, Arr, numberToString(MaxIndex - 1))
  /\ ~HasOwn(heap, Arr, Zero)
  /\ ~ArrayImpl_haveOwnIndexed(heap, Arr, 0)
  /\ JSArray_getLength(heap, Arr) = MaxIndex
  /\ ~heap[Arr].fastIndexProperties

(***************************************************************************)
(* Accessor halves, checked in SpecDefine.                                 *)
(***************************************************************************)
\* An accessor property is redefined by a request that mentions one half.
RedefinesOneHalf ==
  /\ last'.op = "defineOwnProperty"
  /\ HasOwn(heap, last'.self, last'.name)
  /\ OwnProp(heap, last'.self, last'.name).flags.accessor
  /\ last'.dp.setGetter # last'.dp.setSetter

MentionedHalfDiffers(cur) ==
  \/ last'.dp.setGetter /\ last'.v.getter # cur.value.getter
  \/ last'.dp.setSetter /\ last'.v.setter # cur.value.setter

\* C29: an accessor property redefined by an accessor descriptor that
\* mentions one half holds, after a successful call, the supplied half and
\* the half stored before; the call succeeds on a configurable property; on
\* a non-configurable property a mentioned half that differs from the
\* stored one makes the call fail with getter and setter unchanged.
C29_OtherHalfKept ==
  [][RedefinesOneHalf =>
       LET o == last'.self
           cur == OwnProp(heap, o, last'.name)
           new == OwnProp(heap', o, last'.name)
       IN /\ HasOwn(heap', o, last'.name)
          /\ cur.flags.configurable => last'.st = "ok" /\ last'.val = TrueV
          /\ last'.st = "ok" /\ last'.val = TrueV =>
               /\ new.flags.accessor
               /\ new.value.getter = IF last'.dp.setGetter THEN last'.v.getter
                                     ELSE cur.value.getter
               /\ new.value.setter = IF last'.dp.setSetter THEN last'.v.setter
                                     ELSE cur.value.setter
          /\ ~cur.flags.configurable /\ MentionedHalfDiffers(cur) =>
               /\ RefusedAsAsked
               /\ heap' = heap]_vars

\* A request that mentioned the setter only has left a property with the
\* getter it had and the new setter.
C29_SetterReplaced ==
  /\ last.op = "defineOwnProperty"
  /\ last.val = TrueV
  /\ last.dp.setSetter
  /\ ~last.dp.setGetter
  /\ last.v.setter = "g2"
  /\ OwnProp(heap, last.self, last.name).value = PropertyAccessor("g1", "g2")

(***************************************************************************)
(* Accessors on the prototype chain.  The three objects of InitInherit     *)
(* hold the name a as data or as an accessor with or without getter and    *)
(* setter; it is read and written by name and by computed key on each.     *)
(***************************************************************************)
ChainRequests ==
  {[dp |-> getDefaultNewPropertyFlags, v |-> V1],
   AccessorRequest("g1", "s1"), AccessorRequest("g1", NullFn),
   AccessorRequest(NullFn, "s1")}

NextAccessor ==
  \/ \E self \in ObjIds, req \in ChainRequests :
       DefineOwnProperty(self, AName, req.dp, req.v, NoOpFlags)
  \/ \E self \in ObjIds : DeleteNamed(self, AName, NoOpFlags)
  \/ \E self \in ObjIds, opFlags \in ThrowFlags :
       PutNamed(self, AName, V2, opFlags)
  \/ \E self \in ObjIds, opFlags \in ThrowFlags :
       PutComputed(self, StrKey(AName), V2, opFlags)
  \/ \E self \in ObjIds : GetNamed(self, AName)
  \/ \E self \in ObjIds : GetComputed(self, StrKey(AName))
  \/ Return

SpecAccessor == InitInherit /\ [][NextAccessor]_vars

AccessedName ==
  IF last'.op \in {"getNamed", "putNamed"} THEN last'.name
  ELSE valueToSymbolID(last'.key)

\* The call is a get or a put whose name resolves to an accessor property.
ResolvesToAccessor ==
  /\ last'.op \in {"getNamed", "getComputed", "putNamed", "putComputed"}
  /\ Holder(heap, last'.self, AccessedName) # NullObj
  /\ OwnProp(heap, Holder(heap, last'.self, AccessedName),
             AccessedName).flags.accessor

\* C30: a get or put that resolves to an accessor property, on the receiver
\* or on its prototype chain, changes no slot and adds no property; the
\* getter or setter is called with the receiver as this; a null getter
\* yields undefined; a null setter makes the put fail (TypeError under
\* throwOnError, else false).
C30_AccessorOnChain ==
  [][ResolvesToAccessor =>
       LET self == last'.self
           accessor == OwnProp(heap, Holder(heap, self, AccessedName),
                               AccessedName).value
       IN /\ heap' = heap
          /\ IF last'.op \in {"getNamed", "getComputed"}
             THEN IF accessor.getter = NullFn
                  THEN /\ last'.st = "ok" /\ last'.val = Undefined
                       /\ last'.calls = <<>>
                  ELSE /\ last'.st = "ok"
                       /\ last'.val = CallVal(accessor.getter, self)
                       /\ last'.calls = <<GetterCall(accessor.getter, self)>>
             ELSE IF accessor.setter = NullFn
                  THEN RefusedAsAsked /\ last'.calls = <<>>
                  ELSE /\ last'.st = "ok" /\ last'.val = TrueV
                       /\ last'.calls =
                            <<SetterCall(accessor.setter, self, last'.v)>>]_vars

\* The getter of a property two objects up the chain has run with the
\* receiver as this.
C30_InheritedGetterRun ==
  /\ last.op = "getNamed"
  /\ last.self = 3
  /\ ~HasOwn(heap, 3, AName)
  /\ ~HasOwn(heap, 2, AName)
  /\ HasOwn(heap, 1, AName)
  /\ last.calls = <<GetterCall("g1", 3)>>

(***************************************************************************)
(* Puts of an inherited name.  Object 3 inherits from 2 and 2 from 1; the  *)
(* name a is defined on 1 and 2 as writable or read-only data or as a      *)
(* read-only builtin, object 3 is made non-extensible, and a is written    *)
(* on 3.                                                                   *)
(***************************************************************************)
Leaf == 3

BuiltinFlags ==
  {defaultNewNamedPropertyFlags,
   [defaultNewNamedPropertyFlags EXCEPT !.writable = FALSE],
   [defaultNewNamedPropertyFlags EXCEPT !.writable = FALSE,
                                        !.staticBuiltin = TRUE]}

NextShadow ==
  \/ \E self \in {Proto, Receiver}, pf \in BuiltinFlags :
       DefineNewOwnProperty(self, AName, pf, V1)
  \/ \E self \in ObjIds : DeleteNamed(self, AName, NoOpFlags)
  \/ PreventExtensions(Leaf)
  \/ \E self \in {Receiver, Leaf}, opFlags \in ThrowFlags :
       PutNamed(self, AName, V2, opFlags)
  \/ Return

SpecShadow == InitInherit /\ [][NextShadow]_vars

\* A put of a name the receiver does not hold and that its chain holds as a
\* data property.
PutOfInheritedData ==
  /\ last'.op = "putNamed"
  /\ InheritsData(heap, last'.self, last'.name)

ShadowedOrRefused ==
  LET self == last'.self
      inherited == OwnProp(heap, Holder(heap, self, last'.name), last'.name)
      new == OwnProp(heap', self, last'.name)
  IN IF inherited.flags.writable
     THEN /\ last'.st = "ok" /\ last'.val = TrueV
          /\ HasOwn(heap', self, last'.name)
          /\ new.flags = defaultNewNamedPropertyFlags
          /\ new.value = last'.v
          /\ \A o \in ObjIds \ {self} : heap'[o] = heap[o]
     ELSE /\ IF inherited.flags.staticBuiltin
             THEN last'.st = "exc" /\ last'.err = "TypeError"
             ELSE RefusedAsAsked
          /\ heap' = heap

\* C31 as stated: a put of a name found only on a prototype as writable
\* data adds an own property with flags enumerable, writable, configurable
\* and leaves the prototypes as they were; when the inherited property is
\* not writable the put fails (TypeError for a static builtin, else as
\* throwOnError asks) and nothing is added.
C31_PutShadows == [][PutOfInheritedData => ShadowedOrRefused]_vars

\* C31, amended: the same for an extensible receiver, or a read-only
\* inherited property.
C31_PutShadowsExtensible ==
  [][/\ PutOfInheritedData
     /\ \/ isExtensible(heap, last'.self)
        \/ ~OwnProp(heap, Holder(heap, last'.self, last'.name),
                    last'.name).flags.writable
     => ShadowedOrRefused]_vars

\* Object 3 holds its own a after a put, and object 1 holds the a it had.
C31_ShadowAdded ==
  /\ last.op = "putNamed"
  /\ last.self = Leaf
  /\ last.val = TrueV
  /\ OwnProp(heap, Leaf, AName).value = V2
  /\ ~HasOwn(heap, Receiver, AName)
  /\ HasOwn(heap, Proto, AName)
  /\ OwnProp(heap, Proto, AName).value = V1

(***************************************************************************)
(* SpecHostChain: reads through a host object.  Object 1 is a host object, *)
(* object 2 a plain object whose prototype it is, object 3 a plain object  *)
(* whose prototype is object 2.  The name a is defined and deleted on the  *)
(* plain objects and on the host object; a and b are read by symbol and by *)
(* computed key through every object.                                      *)
(***************************************************************************)
InitHostChain ==
  /\ heap = <<NewHostObject(NullObj, <<PName>>), NewObject(1), NewObject(2)>>
  /\ forInCache = NoCache
  /\ nextObjectID = 0
  /\ last = NoCall

NextHostChain ==
  \/ \E self \in ObjIds, req \in InheritRequests :
       DefineOwnProperty(self, AName, req.dp, req.v, NoOpFlags)
  \/ \E self \in ObjIds : DeleteNamed(self, AName, NoOpFlags)
  \/ \E self \in ObjIds, name \in {AName, BName} : GetNamed(self, name)
  \/ \E self \in ObjIds, name \in {AName, BName} :
       GetComputed(self, StrKey(name))
  \/ Return

SpecHostChain == InitHostChain /\ [][NextHostChain]_vars

\* The first object from o up the prototype chain that holds the name or is
\* a host object; NullObj when there is none.
RECURSIVE Resolver(_, _, _)
Resolver(h, o, name) ==
  IF o = NullObj THEN NullObj
  ELSE IF HasOwn(h, o, name) \/ h[o].hostObject THEN o
  ELSE Resolver(h, h[o].parent, name)

\* A read by symbol or by computed key that resolves to a host-object
\* descriptor: the resolving object is a host object that does not hold the
\* name in its class.
ResolvesToHost ==
  /\ last'.op \in {"getNamed", "getComputed"}
  /\ Resolver(heap, last'.self, AccessedName) # NullObj
  /\ ~HasOwn(heap, Resolver(heap, last'.self, AccessedName), AccessedName)

\* The get callback of the owner, and nothing else, has been run.
OwnerCallbackRun ==
  /\ last'.st = "ok"
  /\ last'.calls =
       <<HostGetCall(Resolver(heap, last'.self, AccessedName), AccessedName)>>
  /\ last'.val = HostVal(Resolver(heap, last'.self, AccessedName), AccessedName)
  /\ heap' = heap

\* C32: a read that resolves to a host-object descriptor runs the get
\* callback of the object the descriptor was found on, the owner in the
\* prototype chain; getComputed(O, key) and getNamed(O, symbol(key)) run the
\* callback of that same host object for every receiver O, an ordinary
\* object that inherits from a host object included.
C32_OwnerCallback == [][ResolvesToHost => OwnerCallbackRun]_vars

\* C32, the part that holds: a read by symbol, and a read by computed key
\* whose receiver is itself the host object, run the owner's get callback.
C32_OwnerCallbackNamedOrOwn ==
  [][/\ ResolvesToHost
     /\ last'.op = "getNamed" \/ heap[last'.self].hostObject
     => OwnerCallbackRun]_vars

\* A computed read through a plain object that inherits from the host
\* object has ended without running the callback of the host object.
C32_InheritedHostReadAstray ==
  /\ last.op = "getComputed"
  /\ ~heap[last.self].hostObject
  /\ Resolver(heap, last.self, valueToSymbolID(last.key)) = 1
  /\ ~HasOwn(heap, 1, valueToSymbolID(last.key))
  /\ last.calls = <<>>

(***************************************************************************)
(* SpecCache: the property cache of getNamed.  Objects 1, 2 and 3 are      *)
(* plain, 2 inherits from 1 and 3 from 2; object 4 is a host object that   *)
(* inherits from 1.  The name a is defined (as data or as an accessor) and *)
(* deleted on the plain objects, b on object 1; a and b are read through   *)
(* every object with no cache entry, an empty one and a stale one.         *)
(***************************************************************************)
\* A variant that stamps the entry whatever the mode of the owner's class.
getNamed_RJS_cacheEntryAnyClass(h, self, name, cacheEntry) ==
  LET f == getNamedDescriptor(h, self, name)
  IN IF /\ f.owner # NullObj
        /\ ~f.desc.flags.accessor /\ ~f.desc.flags.hostObject
        /\ cacheEntry.ptr
     THEN PropertyCacheEntry(TRUE, f.h[f.owner].clazz, f.desc.slot)
     ELSE cacheEntry

\* The cache entry after getNamed_RJS(self, name, opFlags, cacheEntry).
getNamed_RJS_cacheEntry(h, self, name, cacheEntry) ==
  LET f == getNamedDescriptor(h, self, name)
  IN IF /\ f.owner # NullObj
        /\ ~f.desc.flags.accessor /\ ~f.desc.flags.hostObject
        /\ cacheEntry.ptr /\ ~f.h[f.owner].clazz.dict
     THEN PropertyCacheEntry(TRUE, f.h[f.owner].clazz, f.desc.slot)
     ELSE cacheEntry

GetNamedCached(self, name, cacheEntry) ==
  /\ Idle
  /\ \E r \in {getNamed_RJS(heap, self, name, NoOpFlags)} :
       /\ heap' = r.h
       /\ last' = [Outcome([NoCall EXCEPT !.op = "getNamedCached",
                                          !.self = self, !.name = name], r)
                     EXCEPT !.cacheEntry = cacheEntry,
                            !.cacheAfter =
                              getNamed_RJS_cacheEntry(heap, self, name,
                                                      cacheEntry)]
  /\ UNCHANGED <<forInCache, nextObjectID>>

\* No entry, a fresh entry, and an entry stamped by an earlier read.
CacheEntries ==
  {NoCacheEntry, PropertyCacheEntry(TRUE, NullClass, 0),
   PropertyCacheEntry(TRUE, RootClass, 1)}

InitCache ==
  /\ heap = <<NewObject(NullObj), NewObject(1), NewObject(2),
              NewHostObject(1, <<PName>>)>>
  /\ forInCache = NoCache
  /\ nextObjectID = 0
  /\ last = NoCall

NextCache ==
  \/ \E self \in {Proto, Receiver, Leaf}, req \in InheritRequests :
       DefineOwnProperty(self, AName, req.dp, req.v, NoOpFlags)
  \/ DefineOwnProperty(Proto, BName, getDefaultNewPropertyFlags, V1, NoOpFlags)
  \/ \E self \in {Proto, Receiver, Leaf} : DeleteNamed(self, AName, NoOpFlags)
  \/ DeleteNamed(Proto, BName, NoOpFlags)
  \/ \E self \in ObjIds, name \in {AName, BName}, cacheEntry \in CacheEntries :
       GetNamedCached(self, name, cacheEntry)
  \/ Return

SpecCache == InitCache /\ [][NextCache]_vars

\* The read found the name as a plain data property of an object whose
\* class is not in dictionary mode.
FoundPlainData ==
  /\ Resolver(heap, last'.self, last'.name) # NullObj
  /\ HasOwn(heap, Resolver(heap, last'.self, last'.name), last'.name)
  /\ ~OwnProp(heap, Resolver(heap, last'.self, last'.name),
              last'.name).flags.accessor
  /\ ~heap[Resolver(heap, last'.self, last'.name)].clazz.dict

\* The entry holds the class of the owner and the slot of the name in it,
\* and every object of that class holds its value of the name at that slot.
StampedWithOwner ==
  /\ last'.cacheAfter.ptr
  /\ last'.cacheAfter.clazz =
       heap[Resolver(heap, last'.self, last'.name)].clazz
  /\ \A o \in ObjIds :
       heap'[o].clazz = last'.cacheAfter.clazz =>
         /\ HasOwn(heap', o, last'.name)
         /\ last'.cacheAfter.slot < Len(heap'[o].slots)
         /\ heap'[o].slots[last'.cacheAfter.slot + 1] =
              OwnProp(heap', o, last'.name).value
         /\ o = Resolver(heap, last'.self, last'.name) =>
              heap'[o].slots[last'.cacheAfter.slot + 1] = last'.val

\* C33: getNamed writes the caller's cache entry only when the name was
\* found as a plain data property (no accessor, no host-object descriptor)
\* of an owner whose class is not in dictionary mode; the entry then holds
\* the owner's class and the slot of the property in it, so that every
\* object of that class holds the property's value at that slot; in every
\* other outcome (absent, accessor, host, dictionary owner) the entry is
\* left as it was.
C33_CacheStamp ==
  [][last'.op = "getNamedCached" =>
       IF FoundPlainData /\ last'.cacheEntry.ptr THEN StampedWithOwner
       ELSE last'.cacheAfter = last'.cacheEntry]_vars

\* A read through object 2 has stamped a stale entry with the class of its
\* prototype, object 1, which holds a after b, and object 3 has that class
\* too, with a value of its own for a.
C33_StampedFromPrototype ==
  /\ last.op = "getNamedCached"
  /\ last.self = Receiver
  /\ last.name = AName
  /\ ~HasOwn(heap, Receiver, AName)
  /\ last.cacheEntry = PropertyCacheEntry(TRUE, RootClass, 1)
  /\ last.cacheAfter = PropertyCacheEntry(TRUE, heap[Proto].clazz, 0)
  /\ heap[Leaf].clazz = heap[Proto].clazz
  /\ getNamedSlotValue(heap, Leaf, [slot |-> 0]) = V2
  /\ last.val = V1

(***************************************************************************)
(* deleteNamed on the object's own properties.                             *)
(***************************************************************************)
\* The slot the class of o gives to the name.
SlotOf(h, o, name) == h[o].clazz.props[HC_findProperty(h[o].clazz, name)].slot

\* C34: deleteNamed removes an own property iff it is configurable: on a
\* non-configurable property it fails (TypeError under throwOnError, else
\* false) and leaves the property, its slot value and the class as they
\* were; on a configurable one the slot is overwritten with empty, the
\* class is replaced by the one without the property, the call returns
\* true and the name is absent from own lookup afterwards; on a missing
\* name it returns true and changes nothing.
C34_DeleteNamedOwn ==
  [][last'.op = "deleteNamed" =>
       IF ~HasOwn(heap, last'.self, last'.name)
       THEN last'.st = "ok" /\ last'.val = TrueV /\ heap' = heap
       ELSE IF ~OwnProp(heap, last'.self, last'.name).flags.configurable
       THEN RefusedAsAsked /\ heap' = heap
       ELSE /\ last'.st = "ok" /\ last'.val = TrueV
            /\ ~HasOwn(heap', last'.self, last'.name)
            /\ ~getOwnNamedDescriptor(heap', last'.self, last'.name).found
            /\ heap'[last'.self].slots[SlotOf(heap, last'.self, last'.name) + 1]
                 = EmptyValue
            /\ \A o \in ObjIds \ {last'.self} : heap'[o] = heap[o]]_vars

\* A configurable property that held a value has been deleted from the
\* middle object of the chain: its slot is still there and holds empty.
C34_DeletedAndEmptied ==
  /\ last.op = "deleteNamed"
  /\ last.self = Receiver
  /\ last.val = TrueV
  /\ ~HasOwn(heap, Receiver, last.name)
  /\ heap[Receiver].clazz.dict
  /\ heap[Receiver].slots = <<EmptyValue>>

(***************************************************************************)
(* SpecDeleteIndex: deleteComputed with an index-like key.  One object,    *)
(* plain or with indexed storage; the element 0 is written, the named      *)
(* property "0" is defined beside it with every combination of writable    *)
(* and configurable, the object is sealed or made non-extensible, and the  *)
(* key is deleted as a number and as a string, with and without            *)
(* throwOnError.                                                           *)
(***************************************************************************)
NextDeleteIndex ==
  \/ PutComputed(Proto, NumKey(0), V1, NoOpFlags)
  \/ \E req \in ScanRequests :
       DefineOwnProperty(Proto, Zero, req.dp, req.v, NoOpFlags)
  \/ \E key \in {NumKey(0), StrKey(Zero)}, opFlags \in ThrowFlags :
       DeleteComputed(Proto, key, opFlags)
  \/ PreventExtensions(Proto)
  \/ Seal(Proto)
  \/ Return

SpecDeleteIndex == InitFast /\ [][NextDeleteIndex]_vars

\* A deleteComputed with an index-like key on an object with indexed
\* storage.
DeletesIndex ==
  /\ last'.op = "deleteComputed"
  /\ heap[last'.self].indexedStorage
  /\ toArrayIndex(valueToSymbolID(last'.key)) >= 0

HasElement(h, o, i) == i < Len(h[o].indexed) /\ h[o].indexed[i + 1] # EmptyValue

\* C35: deleteComputed with an index-like key on an object with indexed
\* storage removes the element and the own named property of that
\* spelling; when the named property is not configurable or the deletion
\* of the element is refused it fails (TypeError under throwOnError, else
\* false) and the named property stays as it was; after a true result the
\* own computed lookup of the key reports absent.
C35_DeleteComputedIndex ==
  [][DeletesIndex =>
       LET name == valueToSymbolID(last'.key)
           i == toArrayIndex(valueToSymbolID(last'.key))
       IN IF \/ /\ HasOwn(heap, last'.self, name)
                /\ ~OwnProp(heap, last'.self, name).flags.configurable
             \/ ~deleteOwnIndexed(heap, last'.self, i).ok
          THEN /\ RefusedAsAsked
               /\ HasOwn(heap, last'.self, name) =>
                    /\ HasOwn(heap', last'.self, name)
                    /\ OwnProp(heap', last'.self, name)
                         = OwnProp(heap, last'.self, name)
                    /\ heap'[last'.self].clazz = heap[last'.self].clazz
          ELSE /\ last'.st = "ok" /\ last'.val = TrueV
               /\ ~HasOwn(heap', last'.self, name)
               /\ ~HasElement(heap', last'.self, i)
               /\ ~getOwnComputedPrimitiveDescriptor(heap', last'.self,
                                                     last'.key).found]_vars

\* The element 0 and a non-configurable named property "0" stand together
\* on an object that is not sealed, and a deleteComputed of the key under
\* throwOnError has raised and left both.
C35_RefusedByNamed ==
  /\ last.op = "deleteComputed"
  /\ last.st = "exc" /\ last.err = "TypeError"
  /\ heap[Proto].indexedStorage
  /\ ~heap[Proto].sealed
  /\ HasElement(heap, Proto, 0)
  /\ HasOwn(heap, Proto, Zero)
  /\ ~OwnProp(heap, Proto, Zero).flags.configurable

\* A deleteComputed has returned true on an object with indexed storage
\* whose class has lost a property, and neither the element 0 nor the name
\* "0" is left.
C35_BothRemoved ==
  /\ last.op = "deleteComputed"
  /\ last.val = TrueV
  /\ heap[Proto].indexedStorage
  /\ heap[Proto].clazz.dict
  /\ ~HasOwn(heap, Proto, Zero)
  /\ heap[Proto].slots = <<EmptyValue>>
  /\ ~HasElement(heap, Proto, 0)

(***************************************************************************)
(* Additions to an object that is not extensible.                          *)
(***************************************************************************)
\* The own property names of o: the names of its class and the spellings
\* of its elements.
OwnNameSet(h, o) ==
  {h[o].clazz.props[j].name : j \in 1..Len(h[o].clazz.props)}
    \cup {numberToString(i) : i \in {x \in 0..(Len(h[o].indexed) - 1) :
                                       h[o].indexed[x + 1] # EmptyValue}}

\* A put or a define, called without internalForce on an object that is
\* not extensible.
UnforcedOnNonExtensible(ops) ==
  /\ last'.op \in ops
  /\ ~isExtensible(heap, last'.self)
  /\ ~last'.opFlags.internalForce

\* C36: after preventExtensions, seal or freeze no put or define called
\* without internalForce (putNamed, putComputed, defineOwnProperty,
\* defineOwnComputed, defineNewOwnProperty) adds to the own property names
\* of the object, named or indexed; with internalForce a define adds the
\* property although the object is not extensible.
C36_NoGrowth ==
  [][/\ UnforcedOnNonExtensible({"putNamed", "putComputed", "defineOwnProperty",
                                 "defineOwnComputed", "defineNewOwnProperty"})
          => OwnNameSet(heap', last'.self) \subseteq OwnNameSet(heap, last'.self)
     /\ /\ last'.op = "defineOwnProperty"
        /\ last'.opFlags.internalForce
        /\ ~isExtensible(heap, last'.self)
        /\ ~HasOwn(heap, last'.self, last'.name)
        => /\ last'.st = "ok" /\ last'.val = TrueV
           /\ HasOwn(heap', last'.self, last'.name)]_vars

\* C36, the part that holds: the puts and the defines that take operation
\* flags add nothing to an object that is not extensible unless
\* internalForce is given, and a define with internalForce adds.
C36_NoGrowthWithFlags ==
  [][/\ UnforcedOnNonExtensible({"putNamed", "putComputed", "defineOwnProperty",
                                 "defineOwnComputed"})
          => OwnNameSet(heap', last'.self) \subseteq OwnNameSet(heap, last'.self)
     /\ /\ last'.op = "defineOwnProperty"
        /\ last'.opFlags.internalForce
        /\ ~isExtensible(heap, last'.self)
        /\ ~HasOwn(heap, last'.self, last'.name)
        => /\ last'.st = "ok" /\ last'.val = TrueV
           /\ HasOwn(heap', last'.self, last'.name)]_vars

\* defineNewOwnProperty has given a property to an object that is not
\* extensible.
C36_AddedBehindSeal ==
  /\ last.op = "defineNewOwnProperty"
  /\ last.st = "ok"
  /\ heap[last.self].noExtend
  /\ HasOwn(heap, last.self, last.name)

(***************************************************************************)
(* SpecLazy: lazy objects.  Objects 1 and 2 are created lazy, 2 inherits   *)
(* from 1.  The name the initializer installs, another name and the index  *)
(* 0 are read, tested, written, defined, deleted and enumerated on both.   *)
(***************************************************************************)
InitLazy ==
  /\ heap = <<NewLazyObject(NullObj), NewLazyObject(1)>>
  /\ forInCache = NoCache
  /\ nextObjectID = 0
  /\ last = NoCall

LazyKeys == {StrKey(LazyName), StrKey(AName), NumKey(0)}

NextLazy ==
  \/ \E self \in ObjIds, name \in {LazyName, AName} : GetNamed(self, name)
  \/ \E self \in ObjIds, name \in {LazyName, AName} : HasNamed(self, name)
  \/ \E self \in ObjIds : PutNamed(self, AName, V1, NoOpFlags)
  \/ \E self \in ObjIds : PutComputed(self, NumKey(0), V1, NoOpFlags)
  \/ \E self \in ObjIds :
       DefineOwnProperty(self, AName, getDefaultNewPropertyFlags, V1, NoOpFlags)
  \/ \E self \in ObjIds, name \in {LazyName, AName} :
       DeleteNamed(self, name, NoOpFlags)
  \/ \E self \in ObjIds, key \in LazyKeys : HasComputed(self, key)
  \/ \E self \in ObjIds, key \in LazyKeys : GetComputed(self, key)
  \/ \E self \in ObjIds :
       DefineOwnComputed(self, NumKey(0), getDefaultNewPropertyFlags, V1,
                         NoOpFlags)
  \/ \E self \in ObjIds, key \in LazyKeys : DeleteComputed(self, key, NoOpFlags)
  \/ \E self \in ObjIds : GetOwnPropertyNames(self, FALSE)
  \/ Return

SpecLazy == InitLazy /\ [][NextLazy]_vars

ComputedOps ==
  {"hasComputed", "getComputed", "putComputed", "defineOwnComputed",
   "deleteComputed"}

\* The name the call is about.
OpName ==
  IF last'.op \in ComputedOps THEN valueToSymbolID(last'.key) ELSE last'.name

\* The flag is never set again; the initializer of an object runs only
\* while the object is lazy, and at most once.
RunsAtMostOnce ==
  \A o \in ObjIds :
    /\ ~heap[o].lazyObject => ~heap'[o].lazyObject
    /\ heap'[o].lazyRuns <= 1
    /\ heap'[o].lazyRuns # heap[o].lazyRuns =>
         heap[o].lazyObject /\ ~heap'[o].lazyObject

\* A lookup, a define, a delete or an enumeration on a lazy object that
\* does not find the name among the object's own.
MissesOnLazy ==
  /\ last'.op \in {"getNamed", "hasNamed", "putNamed", "defineOwnProperty",
                   "deleteNamed", "getOwnPropertyNames"} \cup ComputedOps
  /\ heap[last'.self].lazyObject
  /\ last'.op = "getOwnPropertyNames" \/ ~HasOwn(heap, last'.self, OpName)

\* The call looks the key up by the fast path of the indexed lookups and
\* nowhere else: a read, a test or a put whose key is a number, on an
\* object that has fastIndexProperties.
OnFastPath ==
  /\ last'.op \in {"hasComputed", "getComputed", "putComputed"}
  /\ heap[last'.self].fastIndexProperties
  /\ toArrayIndexFastPath(last'.key) >= 0

\* The object has been initialized, once, and the call has gone on with
\* the initialized object: it sees the name the initializer installs.
InitializedOnce ==
  /\ ~heap'[last'.self].lazyObject
  /\ heap'[last'.self].lazyRuns = 1
  /\ OpName = LazyName =>
       /\ last'.op \in {"getNamed", "getComputed"} => last'.val = JSVal("v1")
       /\ last'.op \in {"hasNamed", "hasComputed"} => last'.val = TrueV
       /\ last'.op \in {"deleteNamed", "deleteComputed"} =>
            last'.val = TrueV /\ ~HasOwn(heap', last'.self, LazyName)

\* C37: the initializer of a lazy object runs at most once: the lazyObject
\* flag is cleared when it runs and is never set again, and every lookup,
\* define, delete or enumeration that misses on a lazy object initializes
\* the object and retries exactly once.
C37_LazyRetriesOnce ==
  [][RunsAtMostOnce /\ (MissesOnLazy => InitializedOnce)]_vars

\* C37, amended: as C37, but for the calls that do not go by the fast path
\* of the indexed lookups; the self-recursive retries end because the flag
\* is clear when they are made.  A call that goes by the fast path leaves
\* the object lazy and its initializer not run.
C37_LazyRetriesOnceOffFastPath ==
  [][/\ RunsAtMostOnce
     /\ MissesOnLazy /\ ~OnFastPath => InitializedOnce
     /\ MissesOnLazy /\ OnFastPath =>
          /\ heap'[last'.self].lazyObject
          /\ heap'[last'.self].lazyRuns = 0]_vars

\* A deleteComputed on a lazy object has initialized it and, retried, has
\* deleted the property the initializer installed.
C37_InitializedByDelete ==
  /\ last.op = "deleteComputed"
  /\ last.key = StrKey(LazyName)
  /\ last.val = TrueV
  /\ ~heap[last.self].lazyObject
  /\ heap[last.self].lazyRuns = 1
  /\ heap[last.self].slots = <<EmptyValue>>
  /\ heap[last.self].clazz = [props |-> <<>>, dict |-> TRUE]

(***************************************************************************)
(* The fast path of the own computed lookup against the generic path.      *)
(***************************************************************************)
\* What the generic path finds for a key on o: the key is interned, the
\* name is looked up in the class, then the index in the indexed storage;
\* a lazy object is initialized and the lookup made again.
GenericOwnLookup(h, o, key) ==
  LET named == getOwnNamedDescriptor(h, o, valueToSymbolID(key))
      arrayIndex == IF h[o].indexedStorage THEN TO_ARRAY_INDEX(key) ELSE -1
      res == IF arrayIndex >= 0 THEN getOwnIndexedPropertyFlags(h, o, arrayIndex)
             ELSE NoIndexedFlags
      again == getOwnComputedPrimitiveDescriptor(initializeLazyObject(h, o), o,
                                                 key)
  IN IF named.found THEN [found |-> TRUE, desc |-> named.desc]
     ELSE IF res.present
     THEN [found |-> TRUE, desc |-> IndexedDesc(res.flags, arrayIndex)]
     ELSE IF h[o].lazyObject THEN [found |-> again.found, desc |-> again.desc]
     ELSE [found |-> FALSE, desc |-> NoDesc]

\* The answer of the own computed lookup.
OwnLookup(h, o, key) ==
  [found |-> getOwnComputedPrimitiveDescriptor(h, o, key).found,
   desc |-> getOwnComputedPrimitiveDescriptor(h, o, key).desc]

\* C38: for every object that has fastIndexProperties and every number key,
\* the fast path of getOwnComputedPrimitiveDescriptor (the indexed lookup
\* alone) gives the same present or absent answer and the same descriptor
\* as the generic path (intern the key, own named lookup, then indexed
\* lookup) gives on that object.
C38_FastPathAgrees ==
  \A o \in ObjIds, i \in 0..MaxIndex :
    heap[o].fastIndexProperties =>
      OwnLookup(heap, o, NumKey(i)) = GenericOwnLookup(heap, o, NumKey(i))

\* A frozen object with indexed storage holds the element 0 and a named
\* property, and still has fastIndexProperties: the fast path answers for
\* the element with the flags of a frozen element.
C38_FastOnFrozenElement ==
  /\ heap[Proto].indexedStorage
  /\ heap[Proto].fastIndexProperties
  /\ heap[Proto].frozen
  /\ HasElement(heap, Proto, 0)
  /\ HasOwn(heap, Proto, PName)
  /\ OwnLookup(heap, Proto, NumKey(0)).found
  /\ ~OwnLookup(heap, Proto, NumKey(0)).desc.flags.writable
  /\ OwnLookup(heap, Proto, NumKey(0)).desc.flags.indexed

(***************************************************************************)
(* SpecUpdate: checkPropertyUpdate as a function of its arguments.  The    *)
(* object holds the property p in one of its possible states (data with    *)
(* every combination of enumerable, writable and configurable, or an       *)
(* accessor with every combination of enumerable and configurable); the    *)
(* function is applied to it with every request that passes its            *)
(* assertions, the value bits of the attributes that are not mentioned     *)
(* set or clear.                                                           *)
(***************************************************************************)
CurrentStates ==
  {[flags |-> PropertyFlags(e, w, c), value |-> V1] :
     e \in BOOLEAN, w \in BOOLEAN, c \in BOOLEAN}
  \cup {[flags |-> [PropertyFlags(e, FALSE, c) EXCEPT !.accessor = TRUE],
         value |-> PropertyAccessor("g1", "s1")] :
          e \in BOOLEAN, c \in BOOLEAN}

InitUpdate ==
  /\ heap \in {addOwnPropertyImpl(<<NewObject(NullObj)>>, 1, PName, cur.flags,
                                  cur.value) : cur \in CurrentStates}
  /\ forInCache = NoCache
  /\ nextObjectID = 0
  /\ last = NoCall

\* The requests: generic, with a value, and with a getter and a setter; an
\* accessor request has neither setWritable nor writable.
UpdateRequests ==
  {[dp |-> DefinePropertyFlags(se, e, sw, w, sc, c, FALSE, FALSE, sv),
    v |-> IF sv THEN val ELSE Undefined] :
     se \in BOOLEAN, e \in BOOLEAN, sw \in BOOLEAN, w \in BOOLEAN,
     sc \in BOOLEAN, c \in BOOLEAN, sv \in BOOLEAN, val \in Vals}
  \cup {[dp |-> DefinePropertyFlags(se, e, FALSE, FALSE, sc, c, TRUE, TRUE,
                                    FALSE),
         v |-> PropertyAccessor(g, "s1")] :
          se \in BOOLEAN, e \in BOOLEAN, sc \in BOOLEAN, c \in BOOLEAN,
          g \in {"g1", "g2"}}

CheckPropertyUpdate(dpFlags, valueOrAccessor, opFlags) ==
  /\ Idle
  /\ \E r \in {checkPropertyUpdate(OwnProp(heap, 1, PName).flags, dpFlags,
                                   OwnProp(heap, 1, PName).value,
                                   valueOrAccessor, opFlags)} :
       last' = [NoCall EXCEPT !.op = "checkPropertyUpdate", !.self = 1,
                              !.name = PName, !.dp = dpFlags,
                              !.v = valueOrAccessor, !.opFlags = opFlags,
                              !.status = r.status, !.pf = r.flags]
  /\ UNCHANGED <<heap, forInCache, nextObjectID>>

NextUpdate ==
  \/ \E req \in UpdateRequests, opFlags \in ThrowFlags :
       CheckPropertyUpdate(req.dp, req.v, opFlags)
  \/ Return

SpecUpdate == InitUpdate /\ [][NextUpdate]_vars

\* The requests that differ from dp at most in the value bit of an
\* attribute among attrs that dp does not mention, and pass the assertions
\* as dp does.
StrayVariants(dp, attrs) ==
  {[dp EXCEPT !.enumerable = e, !.writable = w, !.configurable = c] :
     e \in IF dp.setEnumerable \/ "enumerable" \notin attrs
           THEN {dp.enumerable} ELSE BOOLEAN,
     w \in IF dp.setWritable \/ dpIsAccessor(dp) \/ "writable" \notin attrs
           THEN {dp.writable} ELSE BOOLEAN,
     c \in IF dp.setConfigurable \/ "configurable" \notin attrs
           THEN {dp.configurable} ELSE BOOLEAN}

\* Every such variant of the request gives the status and the flags the
\* call gave.
VariantsAgree(attrs) ==
  \A dp2 \in StrayVariants(last'.dp, attrs) :
    \E r \in {checkPropertyUpdate(OwnProp(heap, 1, PName).flags, dp2,
                                  OwnProp(heap, 1, PName).value, last'.v,
                                  last'.opFlags)} :
      r.status = last'.status /\ r.flags = last'.pf

\* C39: the status and the flags checkPropertyUpdate returns depend only
\* on the attributes the request mentions: two requests that differ only
\* in the enumerable, writable or configurable value bit of an attribute
\* whose set bit is clear give the same status and the same flags, for
\* every state of the current property.
C39_OnlyMentioned ==
  [][last'.op = "checkPropertyUpdate" =>
       VariantsAgree({"enumerable", "writable", "configurable"})]_vars

\* C39, the part that holds: the value bits of enumerable and of writable
\* do not count when the attribute is not mentioned.
C39_OnlyMentionedButConfigurable ==
  [][last'.op = "checkPropertyUpdate" =>
       VariantsAgree({"enumerable", "writable"})]_vars

\* A request that sets a value and has the configurable bit set without
\* setConfigurable has been refused on a writable property that is not
\* configurable.
C39_StrayConfigurableRefused ==
  /\ last.op = "checkPropertyUpdate"
  /\ last.dp.setValue /\ last.v = V2
  /\ ~last.dp.setConfigurable /\ last.dp.configurable
  /\ ~last.dp.setEnumerable /\ ~last.dp.setWritable
  /\ ~OwnProp(heap, 1, PName).flags.configurable
  /\ OwnProp(heap, 1, PName).flags.writable
  /\ last.status = "failed"

(***************************************************************************)
(* SpecForInMixed: for-in over receivers that must not be cached.  Object  *)
(* 1 is a plain prototype; objects 2, 3 and 4 inherit from it: 2 is plain, *)
(* 3 is a host object that reports the name p, 4 has indexed storage.  The *)
(* name a is defined on each and deleted from the plain ones, the element  *)
(* 0 is written on object 4, and each object is enumerated.                *)
(***************************************************************************)
InitForInMixed ==
  /\ heap = <<NewObject(NullObj), NewObject(1), NewHostObject(1, <<PName>>),
              NewIndexedObject(1)>>
  /\ forInCache = NoCache
  /\ nextObjectID = 0
  /\ last = NoCall

NextForInMixed ==
  \/ \E self \in ObjIds :
       DefineOwnProperty(self, AName, getDefaultNewPropertyFlags, V1, NoOpFlags)
  \/ PutComputed(4, NumKey(0), V1, NoOpFlags)
  \/ \E self \in {Proto, Receiver} : DeleteNamed(self, AName, NoOpFlags)
  \/ \E obj \in ObjIds : GetForInPropertyNames(obj)
  \/ Return

SpecForInMixed == InitForInMixed /\ [][NextForInMixed]_vars

\* The names a walk over o and its prototype chain collects.
WalkNames(h, o) ==
  SubSeq(appendAllPropertyNames(h, o, <<>>, 0).arr, 1,
         appendAllPropertyNames(h, o, <<>>, 0).size)

\* C40: getForInPropertyNames answers from the cache only for a receiver
\* that shouldCacheForIn accepts: a receiver that is not cacheable (a host
\* object, a lazy object, an object with indexed storage) and shares its
\* class and the classes of its prototype chain with a cacheable object
\* never receives that object's cached list, so the names returned are
\* those a fresh walk over the receiver collects.
C40_ForInNamesFresh ==
  [][last'.op = "getForInPropertyNames" =>
       /\ ~shouldCacheForIn(heap, last'.self) => ~last'.only
       /\ last'.val = ListVal(WalkNames(heap, last'.self))]_vars

\* C40, the part that holds: when the receiver and every object of its
\* prototype chain are cacheable, the names returned, cached or not, are
\* those of a fresh walk.
C40_ForInNamesFreshWhenCacheable ==
  [][last'.op = "getForInPropertyNames" /\ AllCacheable(heap, last'.self) =>
       last'.val = ListVal(WalkNames(heap, last'.self))]_vars

\* The host object has been answered from the cache of its class, with a
\* list that lacks the name the host reports.
C40_HostServedFromCache ==
  /\ last.op = "getForInPropertyNames"
  /\ heap[last.self].hostObject
  /\ last.only
  /\ last.val # ListVal(WalkNames(heap, last.self))
====
